---- MODULE Spec2Model ----
(***************************************************************************)
(* Model of the label_studio.fsm state engine: the append-only store of    *)
(* state records, the current-state cache, the StateManager facade and the *)
(* declarative transition framework.                                        *)
(*                                                                          *)
(* Specification Spec runs the public operations one call at a time (no    *)
(* two calls overlap); every action is one complete call.  The variable    *)
(* last records what the most recent call did and returned, so that the    *)
(* properties can speak about a call's arguments, result and effects.      *)
(***************************************************************************)
EXTENDS Integers, Sequences, FiniteSets, TLC

VARIABLES records, cache, clock, last, transition_registry, state_models, registrations,
          builder, writers, settings, denormalizers

\* the state model registries: their content and the registrations made on them
state_model_vars == <<state_models, registrations, denormalizers>>

\* the registries, the transition builder, the concurrent callers and the
\* Django settings
registry_vars == <<transition_registry, state_model_vars, builder, writers, settings>>

vars == <<records, cache, clock, last, registry_vars>>

-----------------------------------------------------------------------------
(* Bounds of the model *)

\* number of milliseconds the wall clock can advance
MaxClock == 1
\* number of distinct random tails a sortable id can take within one millisecond
NumTails == 2
\* number of state records the store can hold
MaxRecords == 2
\* number of state records of one entity in the specification of longer histories
MaxChain == 3
\* number of entities in one warm_cache call
MaxWarm == 2
\* number of state records in the specification of the transition framework
\* and the admin surface
MaxFramework == 1
\* number of transitions registered at one time, over both registries
MaxRegistered == 2
\* number of register calls on the state model registries
MaxRegistrations == 2
\* largest limit of a history query
MaxLimit == 3

\* number of method calls made on one transition builder before execute
MaxBuilderCalls == 3

-----------------------------------------------------------------------------
(* Values *)

\* Python's None: a missing cache entry, a null column, "no state"
None == "None"

\* one entity per entity kind; the kind is _meta.model_name
Entities == {"task", "project", "comment", "document"}

\* state labels (state_choices.py); the manager accepts any string
States == {"CREATED", "IN_PROGRESS"}

\* BaseTransition.transition_name of the modelled transition class
TransitionName == "start_task_transition"

\* BaseTransition.get_reason with no acting user
get_reason == "StartTaskTransition executed automatically"

\* the default of transition_state's reason argument
DefaultReason == ""

\* the reasons and transition names callers pass to transition_state: the
\* default reason and the ones a declarative transition passes
Reasons == {DefaultReason, get_reason}

TransitionNames == {TransitionName}

\* models.STATE_MODEL_REGISTRY after start-up: the three core state models
\* and one state model registered by an extension (extension.py)
STATE_MODEL_REGISTRY == {"task", "project", "comment"}

\* get_state_model_for_entity(entity): TRUE iff a state model is registered
get_state_model_for_entity(e) == e \in STATE_MODEL_REGISTRY

\* hasattr(state_model, 'get_denormalized_fields'): none of the core state
\* models defines it; the extension's state model does
HasDenormalizer(e) == e = "comment"

\* the fields get_denormalized_fields returns when it does not raise
DenormalizedFields(e) == IF e = "comment" THEN {"project_id"} ELSE {}

\* denormalized columns of the state model declared without null=True:
\* TaskState.project_id; the extension's column is a nullable convenience field
RequiredFields(e) ==
    CASE e = "task" -> {"project_id"}
      [] OTHER -> {}

-----------------------------------------------------------------------------
(* Sortable identifiers *)

\* a UUID7 as a number: millisecond timestamp in the high bits, random tail
\* in the low bits
generate_uuid7(ms, tail) == ms * NumTails + tail

timestamp_from_uuid7(id) == id \div NumTails

-----------------------------------------------------------------------------
(* Persistence substrate: queries over the state records *)

EntityRecords(recs, e) == {r \in recs : r.entity = e}

\* .filter(entity).order_by('-id').first(): the record of the entity with the
\* largest id, as a set of at most one record (the empty set is None)
get_current_state_object(recs, e) ==
    {r \in EntityRecords(recs, e) : \A q \in EntityRecords(recs, e) : q.id <= r.id}

\* the state column of an optional record
StateOf(obj) == IF obj = {} THEN None ELSE (CHOOSE r \in obj : TRUE).state

-----------------------------------------------------------------------------
(* StateManager *)

\* StateManager.CACHE_PREFIX
CACHE_PREFIX == "fsm:current"

\* entity._meta.label_lower: app label and model name
label_lower(e) ==
    CASE e = "task" -> "tasks.task"
      [] e = "project" -> "projects.project"
      [] e = "comment" -> "comments.comment"
      [] OTHER -> "documents.document"

\* entity.pk as the key shows it: the modelled task and project are both the
\* first row of their tables
pk(e) == IF e \in {"task", "project"} THEN "1" ELSE "2"

\* the f-string of get_cache_key for each modelled entity: prefix, label_lower
\* and pk, joined by colons
CacheKeyOf == [e \in Entities |-> CACHE_PREFIX \o ":" \o label_lower(e) \o ":" \o pk(e)]

GetCacheKeyWithoutLabel(e) == CACHE_PREFIX \o ":" \o pk(e)

\* StateManager.get_cache_key
get_cache_key(e) == CacheKeyOf[e]

\* the keys of the cache entries of the modelled entities
CacheKeys == {get_cache_key(e) : e \in Entities}

\* the write-back of get_current_state after a query: a state is cached, None
\* is not
ReadThroughNoWriteBack(c, e, current_state) == c

read_through(c, e, current_state) ==
    IF current_state # None
    THEN [c EXCEPT ![get_cache_key(e)] = current_state]
    ELSE c

\* a get_current_state whose query of the store cannot fail
GetCurrentStateAlwaysReads(c, recs, e, read_ok) ==
    IF c[get_cache_key(e)] # None
    THEN [ret |-> c[get_cache_key(e)], cache |-> c, dbq |-> 0]
    ELSE IF ~get_state_model_for_entity(e)
    THEN [ret |-> None, cache |-> c, dbq |-> 0]
    ELSE LET obj == get_current_state_object(recs, e)
             current_state == StateOf(obj)
         IN  [ret |-> current_state,
              cache |-> read_through(c, e, current_state),
              dbq |-> 1]

\* StateManager.get_current_state: the value returned, the cache afterwards
\* and the number of queries sent to the persistence substrate.  read_ok
\* tells whether the query and the write-back run without an exception; an
\* exception there is logged and None is returned
get_current_state(c, recs, e, read_ok) ==
    IF c[get_cache_key(e)] # None
    THEN [ret |-> c[get_cache_key(e)], cache |-> c, dbq |-> 0]
    ELSE IF ~get_state_model_for_entity(e)
    THEN [ret |-> None, cache |-> c, dbq |-> 0]
    ELSE IF ~read_ok
    THEN [ret |-> None, cache |-> c, dbq |-> 1]
    ELSE LET obj == get_current_state_object(recs, e)
             current_state == StateOf(obj)
         IN  [ret |-> current_state,
              cache |-> read_through(c, e, current_state),
              dbq |-> 1]

\* the first step of a transition_state call that the environment makes
\* fail, if any: get_denormalized_fields raises, the INSERT fails, or
\* cache.set fails
Faults == {"none", "denormalize", "insert", "cache_set"}

\* what the environment does to one transition_state call: the fault it
\* injects and the random tail of the generated id
Environments == [fault : Faults, tail : 0 .. (NumTails - 1)]

\* the except branch of transition_state: the atomic block has rolled the
\* insert back, the entity's cache entry is deleted and StateManagerError is
\* raised
TransitionFailedKeepsCache(c, recs, e, failure, current_state) ==
    [outcome |-> "raise", exc |-> "StateManagerError", failure |-> failure,
     records |-> recs, cache |-> c, new |-> {}, current_state |-> current_state]

TransitionFailedReturnsFalse(c, recs, e, failure, current_state) ==
    [outcome |-> "return_false", exc |-> None, failure |-> failure,
     records |-> recs, cache |-> [c EXCEPT ![get_cache_key(e)] = None],
     new |-> {}, current_state |-> current_state]

transition_failed(c, recs, e, failure, current_state) ==
    [outcome |-> "raise", exc |-> "StateManagerError", failure |-> failure,
     records |-> recs, cache |-> [c EXCEPT ![get_cache_key(e)] = None],
     new |-> {}, current_state |-> current_state]

\* TaskState.is_terminal_state: the state is COMPLETED
is_terminal_state(state) == state = "COMPLETED"

TransitionCommittedUnlessTerminal(c, recs, e, new_state_record, current_state) ==
    IF is_terminal_state(current_state)
    THEN transition_failed(c, recs, e, "insert", current_state)
    ELSE [outcome |-> "return_true", exc |-> None, failure |-> "none",
          records |-> recs \cup {new_state_record},
          cache |-> [c EXCEPT ![get_cache_key(e)] = new_state_record.state],
          new |-> {new_state_record}, current_state |-> current_state]

\* the atomic block of transition_state ran to its end: the record is
\* inserted, the cache entry is set to new_state and True is returned
transition_committed(c, recs, e, new_state_record, current_state) ==
    [outcome |-> "return_true", exc |-> None, failure |-> "none",
     records |-> recs \cup {new_state_record},
     cache |-> [c EXCEPT ![get_cache_key(e)] = new_state_record.state],
     new |-> {new_state_record}, current_state |-> current_state]

\* the environments whose fault, if any, is in the read of the current state
\* that transition_state makes before its atomic block
ReadEnvironments == [fault : {"none", "read"}, tail : 0 .. (NumTails - 1)]

\* StateManager.transition_state.  The faults of the environment are those of
\* the atomic block, and "read": the query of get_current_state raises
transition_state(c, recs, now, e, new_state, transition_name, reason, env) ==
    IF ~get_state_model_for_entity(e)
    THEN [outcome |-> "raise", exc |-> "StateManagerError", failure |-> "no_state_model",
          records |-> recs, cache |-> c, new |-> {}, current_state |-> None]
    ELSE
      LET g == get_current_state(c, recs, e, env.fault # "read")
          current_state == g.ret
          denorm_raises == HasDenormalizer(e) /\ env.fault = "denormalize"
          denormalized_fields == IF HasDenormalizer(e) THEN DenormalizedFields(e) ELSE {}
          new_state_record ==
              [id |-> generate_uuid7(now, env.tail),
               entity |-> e,
               state |-> new_state,
               previous_state |-> current_state,
               transition_name |-> transition_name,
               reason |-> reason,
               denormalized |-> denormalized_fields]
          insert_fails == \/ env.fault = "insert"
                          \/ ~(RequiredFields(e) \subseteq denormalized_fields)
          failure == IF denorm_raises THEN "denormalize"
                     ELSE IF insert_fails THEN "insert"
                     ELSE IF env.fault = "cache_set" THEN "cache_set"
                     ELSE "none"
      IN  IF failure # "none"
          THEN transition_failed(g.cache, recs, e, failure, current_state)
          ELSE transition_committed(g.cache, recs, e, new_state_record, current_state)

\* StateManager.get_state_history: the entity's records, largest id first,
\* cut to limit records
RECURSIVE OrderByIdDesc(_)
OrderByIdDesc(rs) ==
    IF rs = {} THEN <<>>
    ELSE LET top == CHOOSE r \in rs : \A q \in rs : q.id <= r.id
         IN  <<top>> \o OrderByIdDesc(rs \ {top})

\* the smaller of two numbers
Min(a, b) == IF a < b THEN a ELSE b

SliceFromOldest(seq, limit) ==
    SubSeq(seq, IF limit < Len(seq) THEN Len(seq) - limit + 1 ELSE 1, Len(seq))

Slice(seq, limit) == SubSeq(seq, 1, IF limit < Len(seq) THEN limit ELSE Len(seq))

get_state_history(recs, e, limit) ==
    IF ~get_state_model_for_entity(e) THEN <<>>
    ELSE Slice(OrderByIdDesc(EntityRecords(recs, e)), limit)

\* StateManager.invalidate_cache
invalidate_cache(c, e) == [c EXCEPT ![get_cache_key(e)] = None]

\* Python truth of a state string: None and the empty string are false
Truthy(s) == s # None /\ s # ""

\* StateManager.warm_cache over the entities of es: a read-through of each,
\* then cache.set_many of the states that are truthy
RECURSIVE warm_cache(_, _, _)
warm_cache(c, recs, es) ==
    IF es = {} THEN c
    ELSE LET e == CHOOSE x \in es : TRUE
             g == get_current_state(c, recs, e, TRUE)
             rest == warm_cache(g.cache, recs, es \ {e})
         IN  IF Truthy(g.ret) THEN [rest EXCEPT ![get_cache_key(e)] = g.ret]
             ELSE rest

-----------------------------------------------------------------------------
(* Declarative transitions (transitions.py) *)

\* what the overridable methods of one transition instance do in one execute
\* call: the class-level check can_transition_from_state and the
\* instance-specific validation each return true or false or raise, and each
\* of pre_transition_hook, transition and post_transition_hook returns or
\* raises
Behaviours ==
    [can : {"true", "false", "raise"}, validate : {"true", "false", "raise"},
     pre_hook : {"ok", "raise"}, transition : {"ok", "raise"}, post_hook : {"ok", "raise"}]

\* BaseTransition.validate_transition: the class-level check first, then the
\* instance-specific validation; "check_raise" and "raise" are exceptions of
\* the one and of the other
ValidateSkipsClassCheck(beh) == beh.validate

validate_transition(beh) ==
    IF beh.can = "raise" THEN "check_raise"
    ELSE IF beh.can = "false" THEN "false"
    ELSE beh.validate

\* the steps of execute, in the order of the source
ExecuteSteps ==
    <<"validate_transition", "pre_transition_hook", "transition", "transition_state",
      "get_current_state_object", "post_transition_hook", "return">>

\* "if not self.validate_transition(context): raise": validation passes only
\* when validate_transition returns true
ValidationIgnoresFalse(beh) == validate_transition(beh) \notin {"raise", "check_raise"}

validation_passes(beh) == validate_transition(beh) = "true"

\* an exception leaves execute: the context reference is cleared first
RaisedRollsBack(exc, trace, recs, c, new, fetched) ==
    [outcome |-> "raise", exc |-> exc, trace |-> trace, records |-> recs \ new, cache |-> c,
     new |-> {}, fetched |-> fetched, context |-> None]

RaisedKeepsContext(exc, trace, recs, c, new, fetched) ==
    [outcome |-> "raise", exc |-> exc, trace |-> trace, records |-> recs, cache |-> c,
     new |-> new, fetched |-> fetched, context |-> "context"]

Raised(exc, trace, recs, c, new, fetched) ==
    [outcome |-> "raise", exc |-> exc, trace |-> trace, records |-> recs, cache |-> c,
     new |-> new, fetched |-> fetched, context |-> None]

\* BaseTransition.execute(context): trace lists the steps that were started
execute(c, recs, now, e, target_state, beh, env) ==
    LET t == transition_state(c, recs, now, e, target_state, TransitionName, get_reason, env)
        state_record == get_current_state_object(t.records, e)
        s1 == <<"validate_transition">>
        s2 == Append(s1, "pre_transition_hook")
        s3 == Append(s2, "transition")
        s4 == Append(s3, "transition_state")
        s5 == Append(s4, "get_current_state_object")
        s6 == Append(s5, "post_transition_hook")
        s7 == Append(s6, "return")
    IN  IF validate_transition(beh) = "check_raise"
        THEN Raised("CheckError", s1, recs, c, {}, {})
        ELSE IF validate_transition(beh) = "raise"
        THEN Raised("TransitionValidationError", s1, recs, c, {}, {})
        ELSE IF ~validation_passes(beh)
        THEN Raised("TransitionValidationError", s1, recs, c, {}, {})
        ELSE IF beh.pre_hook = "raise"
        THEN Raised("HookError", s2, recs, c, {}, {})
        ELSE IF beh.transition = "raise"
        THEN Raised("TransitionError", s3, recs, c, {}, {})
        ELSE IF t.outcome = "raise"
        THEN Raised(t.exc, s4, t.records, t.cache, {}, {})
        ELSE IF t.outcome # "return_true"
        THEN Raised("TransitionValidationError", s4, t.records, t.cache, t.new, {})
        ELSE IF beh.post_hook = "raise"
        THEN Raised("HookError", s6, t.records, t.cache, t.new, state_record)
        ELSE [outcome |-> "return", exc |-> None, trace |-> s7, records |-> t.records,
              cache |-> t.cache, new |-> t.new, fetched |-> state_record,
              context |-> "context"]

\* the one thing that goes wrong in an execute call, if any
ExecuteFaults ==
    {"none", "check_false", "check_raise", "validate_false", "validate_raise",
     "pre_hook", "transition", "denormalize", "insert", "cache_set", "post_hook"}

BehaviourOf(x) ==
    [can |-> CASE x = "check_false" -> "false"
               [] x = "check_raise" -> "raise"
               [] OTHER -> "true",
     validate |-> CASE x = "validate_false" -> "false"
                    [] x = "validate_raise" -> "raise"
                    [] OTHER -> "true",
     pre_hook |-> IF x = "pre_hook" THEN "raise" ELSE "ok",
     transition |-> IF x = "transition" THEN "raise" ELSE "ok",
     post_hook |-> IF x = "post_hook" THEN "raise" ELSE "ok"]

FaultOf(x) == IF x \in Faults THEN x ELSE "none"

-----------------------------------------------------------------------------
(* Time-range queries (state_manager.py, models.py); times are milliseconds  *)

\* UUID7Field.filter_by_time_range: the time range becomes a range of ids, from
\* the smallest id of the start millisecond to the largest id of the end
\* millisecond
FilterUpToFirstIdOfEnd(queryset, start_time, end_time) ==
    {r \in queryset : /\ generate_uuid7(start_time, 0) <= r.id
                       /\ r.id <= generate_uuid7(end_time, 0)}

filter_by_time_range(queryset, start_time, end_time) ==
    {r \in queryset : /\ generate_uuid7(start_time, 0) <= r.id
                       /\ r.id <= generate_uuid7(end_time, NumTails - 1)}

\* BaseState.get_states_in_range
get_states_in_range(recs, e, start_time, end_time) ==
    filter_by_time_range(EntityRecords(recs, e), start_time, end_time)

\* StateManager.get_states_in_time_range; end_time is a set of at most one
\* time, the empty set being None
get_states_in_time_range(recs, now, e, start_time, end_time) ==
    IF ~get_state_model_for_entity(e) THEN {}
    ELSE get_states_in_range(recs, e, start_time,
                             IF end_time = {} THEN now ELSE CHOOSE t \in end_time : TRUE)

-----------------------------------------------------------------------------
(* Transition registries (transitions.py, registry.py) and the helpers of    *)
(* transition_utils.py                                                        *)

\* the modules that each create a TransitionRegistry instance named
\* transition_registry
TransitionRegistryModules == {"fsm.transitions", "fsm.registry"}

\* the entity name and the transition names that callers register transitions
\* under, and the entity types that callers look transitions up for
RegistryEntities == {"project"}
LookupEntities == {"task", "project"}
RegisteredNames == {"test_transition", "invalid_transition"}

\* transition classes: the class-level check of TestTransition returns true,
\* that of InvalidTransition returns false and that of BrokenTransition raises;
\* BasicTransition overrides neither the class-level check nor get_target_state
TransitionClasses ==
    {"TestTransition", "InvalidTransition", "BrokenTransition", "BasicTransition"}

\* TransitionRegistry._transitions, as a map from (entity_name,
\* transition_name) to the class, None where nothing is registered
RegistryKeys == RegistryEntities \X RegisteredNames

EmptyRegistry == [k \in RegistryKeys |-> None]

\* cls.can_transition_from_state(context)
can_transition_from_state(cls, current_state) ==
    CASE cls = "InvalidTransition" -> "false"
      [] cls = "BrokenTransition" -> "raise"
      [] OTHER -> "true"

\* the instance-specific validation of the class: InvalidTransition raises
InstanceValidation(cls) == IF cls = "InvalidTransition" THEN "raise" ELSE "true"

\* transition.target_state of an instance of the class
TargetStateOf(cls) == IF cls = "BasicTransition" THEN "IN_PROGRESS" ELSE "CREATED"

\* cls.get_target_state(): None unless the class overrides it
get_target_state(cls) == IF cls = "BasicTransition" THEN None ELSE TargetStateOf(cls)

\* TransitionRegistry.register
register(reg, entity_name, transition_name, transition_class) ==
    [reg EXCEPT ![<<entity_name, transition_name>>] = transition_class]

\* TransitionRegistry.get_transition
GetTransitionAnyEntity(reg, entity_name, transition_name) ==
    IF \E k \in DOMAIN reg : k[2] = transition_name /\ reg[k] # None
    THEN reg[CHOOSE k \in DOMAIN reg : k[2] = transition_name /\ reg[k] # None]
    ELSE None

get_transition(reg, entity_name, transition_name) ==
    IF <<entity_name, transition_name>> \in DOMAIN reg
    THEN reg[<<entity_name, transition_name>>]
    ELSE None

\* TransitionRegistry.get_transitions_for_entity: a dict, as the set of its
\* (name, class) items
get_transitions_for_entity(reg, entity_name) ==
    {<<k[2], reg[k]>> : k \in {q \in DOMAIN reg : q[1] = entity_name /\ reg[q] # None}}

\* TransitionRegistry.clear
clear(reg) == EmptyRegistry

\* transition_utils.get_available_transitions: the registry instance that
\* transition_utils imports is the one of fsm.transitions
get_available_transitions(regs, e) ==
    get_transitions_for_entity(regs["fsm.transitions"], e)

\* transition_utils.get_valid_transitions: the context of a candidate is built
\* with the target state of the class, which the context requires to be a
\* string; a candidate whose context cannot be built or whose class-level check
\* raises is skipped
get_valid_transitions(regs, recs, e, validate) ==
    LET available == get_available_transitions(regs, e)
        current_state == StateOf(get_current_state_object(recs, e))
    IN  [outcome |-> "return",
         result |-> IF validate
                    THEN {item \in available :
                            /\ get_target_state(item[2]) # None
                            /\ can_transition_from_state(item[2], current_state) = "true"}
                    ELSE available]

\* transition_data as the field constraints of the class see it
TransitionData == {"valid", "malformed"}

\* transition_class(**transition_data): the declared field constraints are
\* checked at construction
ConstructAcceptsAll(data) == "ok"

construct(data) == IF data = "malformed" THEN "ValidationError" ELSE "ok"

\* the faults of the environment in the calls made through a registry
RegistryFaults == {"none", "post_hook"}

\* the steps of TransitionRegistry.execute_transition before transition.execute
RegistrySteps == <<"get_transition", "construct", "get_current_state_object">>

\* what the methods of an instance of the class do in one execute call, with
\* the fault x of the environment
ClassBehaviour(cls, current_state, x) ==
    [BehaviourOf(x) EXCEPT
        !.can = can_transition_from_state(cls, current_state),
        !.validate = IF InstanceValidation(cls) = "raise"
                     THEN "raise" ELSE BehaviourOf(x).validate]

\* TransitionRegistry.execute_transition
execute_transition(reg, c, recs, now, e, transition_name, data, x, tail) ==
    LET transition_class == get_transition(reg, e, transition_name)
        current_state_object == get_current_state_object(recs, e)
        current_state == StateOf(current_state_object)
        r == execute(c, recs, now, e, TargetStateOf(transition_class),
                     ClassBehaviour(transition_class, current_state, x),
                     [fault |-> FaultOf(x), tail |-> tail])
    IN  IF transition_class = None
        THEN Raised("ValueError", SubSeq(RegistrySteps, 1, 1), recs, c, {}, {})
        ELSE IF construct(data) # "ok"
        THEN Raised(construct(data), SubSeq(RegistrySteps, 1, 2), recs, c, {}, {})
        ELSE [r EXCEPT !.trace = RegistrySteps \o r.trace]

-----------------------------------------------------------------------------
(* State model registries (models.py, registry.py) *)

\* the modules that each keep a registry of state models: STATE_MODEL_REGISTRY
\* of fsm.models and state_model_registry of fsm.registry
StateModelRegistryModules == {"fsm.models", "fsm.registry"}

\* entity names that callers register and look up state models under
EntityNames == {"task", "Task", "review"}

\* str.lower() on the entity names
lower(entity_name) == IF entity_name = "Task" THEN "task" ELSE entity_name

\* the keys of a registry
EntityKeys == {lower(n) : n \in EntityNames}

\* state model classes
StateModelClasses == {"TaskState", "ReviewState"}

\* the content of the registries at import: the dict literal of fsm.models
\* holds the built-in models, the registry of fsm.registry is empty
ImportedModels(module) ==
    IF module = "fsm.models" THEN <<<<"task", "TaskState", None>>>> ELSE <<>>

\* register_state_model of fsm.models and StateModelRegistry.register_model:
\* the key is the lower-cased name, an existing entry is overwritten
RegisterModelAsGiven(models, entity_name, state_model) ==
    IF entity_name \in DOMAIN models
    THEN [models EXCEPT ![entity_name] = state_model]
    ELSE models

register_model(models, entity_name, state_model) ==
    [models EXCEPT ![lower(entity_name)] = state_model]

\* the denormalizer functions that callers of register_model supply
Denormalizers == {"task_denormalizer", "review_denormalizer"}

\* the denormalizer part of StateModelRegistry.register_model: the entry of
\* the key is set when the call supplies a denormalizer
register_denormalizer(denorms, entity_name, denormalizer) ==
    IF denormalizer # None
    THEN [denorms EXCEPT ![lower(entity_name)] = denormalizer]
    ELSE denorms

\* StateModelRegistry.get_denormalizer
get_denormalizer(denorms, entity_name) ==
    IF lower(entity_name) \in DOMAIN denorms THEN denorms[lower(entity_name)] ELSE None

\* get_state_model of fsm.models and StateModelRegistry.get_model
get_model(models, entity_name) ==
    IF lower(entity_name) \in DOMAIN models THEN models[lower(entity_name)] ELSE None

\* get_state_model_for_entity as StateManager imports it: the function of
\* fsm.models, which reads the registry of fsm.models
manager_get_state_model(all_models, entity_name) ==
    get_model(all_models["fsm.models"], entity_name)

RECURSIVE RegisterAll(_, _)
\* a registry after the registrations of a sequence, in order
RegisterAll(models, regs) ==
    IF regs = <<>> THEN models
    ELSE RegisterAll(register_model(models, Head(regs)[1], Head(regs)[2]), Tail(regs))

-----------------------------------------------------------------------------
(* API surface (api.py, serializers.py) *)

\* the view sets: FSMViewSet, whose entity mapping is empty, and a subclass
\* that overrides _get_entity_model with a mapping of the entity types
ViewSets == {"FSMViewSet", "subclass"}

entity_mapping(viewset) == IF viewset = "FSMViewSet" THEN {} ELSE Entities

\* the entity types a client names in a URL
EntityTypes == {"task", "project", "invalid"}

\* FSMViewSet._get_entity_and_state_model: Http404 for an entity type without
\* a model, for an id without an instance (exists is false) and for an entity
\* without a state model
get_entity_and_state_model(viewset, entity_type, exists) ==
    IF entity_type \notin entity_mapping(viewset) THEN "Http404"
    ELSE IF ~exists THEN "Http404"
    ELSE IF ~get_state_model_for_entity(entity_type) THEN "Http404"
    ELSE "ok"

\* the limit of the history endpoint
MaxHistoryLimit == 1000
DefaultHistoryLimit == 100

\* the limit query parameter of a request: absent, an integer, or text that
\* is not an integer
LimitParams ==
    {[kind |-> "absent", value |-> 0], [kind |-> "text", value |-> 0]}
        \cup {[kind |-> "int", value |-> v] : v \in {-1, 0, 1, 1000, 1001, 10000}}

\* min(int(request.query_params.get('limit', 100)), 1000) for a parameter
\* that int() accepts
HistoryLimitUnclamped(param) ==
    IF param.kind = "absent" THEN DefaultHistoryLimit ELSE param.value

history_limit(param) ==
    Min(IF param.kind = "absent" THEN DefaultHistoryLimit ELSE param.value,
        MaxHistoryLimit)

\* StateHistorySerializer on one record
StateHistorySerializer(r) ==
    [id |-> r.id, state |-> r.state, previous_state |-> r.previous_state,
     transition_name |-> r.transition_name, reason |-> r.reason]

\* a response without a history: an error status and no limit handed on
HistoryError(status, reached) ==
    [status |-> status, reached |-> reached, count |-> 0, results |-> <<>>]

\* FSMViewSet.state_history: int() raises on text and the query set refuses a
\* negative slice, both inside the try block
state_history(viewset, recs, entity_type, exists, param) ==
    IF get_entity_and_state_model(viewset, entity_type, exists) # "ok"
    THEN HistoryError(404, {})
    ELSE IF param.kind = "text" THEN HistoryError(500, {})
    ELSE LET limit == history_limit(param)
             history == get_state_history(recs, entity_type, limit)
         IN  IF limit < 0 THEN HistoryError(500, {limit})
             ELSE [status |-> 200, reached |-> {limit}, count |-> Len(history),
                   results |-> [i \in DOMAIN history |->
                                   StateHistorySerializer(history[i])]]

\* new_state values of request bodies
RawStates == {"CREATED", " created ", "in_progress", "", "  "}

\* the bodies of POST requests: new_state as a set of at most one value, the
\* empty set being a body without new_state
RequestData == {{}} \cup {{raw} : raw \in RawStates}

\* str.strip() and str.upper() on these values
strip(value) ==
    CASE value = " created " -> "created"
      [] value = " CREATED " -> "CREATED"
      [] value = "  " -> ""
      [] OTHER -> value

upper(value) ==
    CASE value = "created" -> "CREATED"
      [] value = " created " -> " CREATED "
      [] value = "in_progress" -> "IN_PROGRESS"
      [] OTHER -> value

\* StateTransitionSerializer.validate_new_state
ValidateNewStateAsGiven(value) ==
    IF value = "" \/ strip(value) = "" THEN "ValidationError" ELSE value

validate_new_state(value) ==
    IF value = "" \/ strip(value) = "" THEN "ValidationError"
    ELSE upper(strip(value))

\* serializer.is_valid(raise_exception=True): new_state is required
is_valid(data) ==
    IF data = {} THEN "ValidationError"
    ELSE validate_new_state(CHOOSE raw \in data : TRUE)

\* the response to a transition request that wrote nothing
TransitionError(status, failure, c) ==
    [status |-> status, failure |-> failure, records |-> {}, cache |-> c, new |-> {},
     previous_state |-> None, new_state |-> None]

\* FSMViewSet.transition_state: Http404 leaves the method before the try
\* block; every exception raised inside it, the serializer's ValidationError
\* and the manager's StateManagerError included, is answered with status 500
api_transition_state(viewset, c, recs, now, entity_type, exists, data, env) ==
    LET new_state == is_valid(data)
        g == get_current_state(c, recs, entity_type, TRUE)
        t == transition_state(g.cache, recs, now, entity_type, new_state, None,
                              DefaultReason, env)
    IN  IF get_entity_and_state_model(viewset, entity_type, exists) # "ok"
        THEN [TransitionError(404, "not_found", c) EXCEPT !.records = recs]
        ELSE IF new_state = "ValidationError"
        THEN [TransitionError(500, "invalid_data", c) EXCEPT !.records = recs]
        ELSE IF t.outcome = "raise"
        THEN [TransitionError(500, "manager_raised", t.cache) EXCEPT !.records = t.records]
        ELSE IF t.outcome = "return_true"
        THEN [status |-> 200, failure |-> "none", records |-> t.records,
              cache |-> t.cache, new |-> t.new, previous_state |-> g.ret,
              new_state |-> new_state]
        ELSE [TransitionError(400, "manager_false", t.cache) EXCEPT !.records = t.records]

-----------------------------------------------------------------------------
(* Admin surface (admin.py) *)

\* BaseStateAdmin: the admin site may view state records, nothing else
has_add_permission == FALSE
has_change_permission == FALSE
DeletePermissionGranted == TRUE

has_delete_permission == FALSE

AdminRequests ==
    {"add", "change", "delete", "mark_states_as_reviewed", "export_state_history"}

\* the records after an admin request on the entity's current record r (a set
\* of at most one record); the two admin actions only count the queryset
admin_request(recs, kind, e, obj, now) ==
    CASE kind = "add" /\ has_add_permission ->
            recs \cup {[id |-> generate_uuid7(now, 0), entity |-> e, state |-> "CREATED",
                        previous_state |-> None, transition_name |-> None,
                        reason |-> "", denormalized |-> {}]}
      [] kind = "change" /\ has_change_permission ->
            (recs \ obj) \cup {[r EXCEPT !.reason = "edited"] : r \in obj}
      [] kind = "delete" /\ has_delete_permission -> recs \ obj
      [] OTHER -> recs

-----------------------------------------------------------------------------
(* The fluent builder (transition_utils.py) *)

\* a dict with no key
EmptyDict == [k \in {} |-> None]

\* dict.update(kwargs): the keys of kwargs are set, the other keys stay
UpdateKeepsEarlier(d, kwargs) ==
    [k \in DOMAIN d \cup DOMAIN kwargs |-> IF k \in DOMAIN d THEN d[k] ELSE kwargs[k]]

update(d, kwargs) ==
    [k \in DOMAIN d \cup DOMAIN kwargs |-> IF k \in DOMAIN kwargs THEN kwargs[k] ELSE d[k]]

\* the entities builders are made for
BuilderEntities == {"project"}

\* the arguments of transition(name): a registered name, a name that is not
\* registered and the empty name
BuilderNames == {"test_transition", "unknown_transition", ""}

\* the keyword arguments of with_data: values of the declared field of the
\* transition class, one of them violating its constraint
DataKwargs == {[test_field |-> "valid"], [test_field |-> "malformed"]}

\* the keyword arguments of with_context
ContextKwargs == {[extra |-> "context"], [extra |-> "other"]}

\* the users handed to by_user
Users == {"user"}

\* transition_data as the field constraints of the class see it: malformed
\* when a field holds a value that violates its constraint
AsTransitionData(transition_data) ==
    IF \E k \in DOMAIN transition_data : transition_data[k] = "malformed"
    THEN "malformed" ELSE "valid"

\* no builder has been constructed
NoBuilder ==
    [entity |-> None, _transition_name |-> None, _transition_data |-> EmptyDict,
     _user |-> None, _context_data |-> EmptyDict, calls |-> <<>>]

\* TransitionBuilder.__init__; calls is the list of the method calls made on
\* the builder since
TransitionBuilder(e) == [NoBuilder EXCEPT !.entity = e]

\* TransitionBuilder.transition
transition(b, name) ==
    [b EXCEPT !._transition_name = name,
              !.calls = Append(@, [method |-> "transition", arg |-> name])]

\* TransitionBuilder.with_data
with_data(b, data) ==
    [b EXCEPT !._transition_data = update(@, data),
              !.calls = Append(@, [method |-> "with_data", arg |-> data])]

\* TransitionBuilder.by_user
by_user(b, user) ==
    [b EXCEPT !._user = user,
              !.calls = Append(@, [method |-> "by_user", arg |-> user])]

\* TransitionBuilder.with_context
with_context(b, context) ==
    [b EXCEPT !._context_data = update(@, context),
              !.calls = Append(@, [method |-> "with_context", arg |-> context])]

\* the arguments TransitionBuilder.execute hands to execute_transition
BuilderArguments(b) ==
    [transition_name |-> b._transition_name, transition_data |-> b._transition_data,
     user |-> b._user, context |-> b._context_data]

\* transition_utils.execute_transition: the call goes to the registry instance
\* that transition_utils imports, the one of fsm.transitions
utils_execute_transition(regs, c, recs, now, e, args, x, tail) ==
    execute_transition(regs["fsm.transitions"], c, recs, now, e, args.transition_name,
                       AsTransitionData(args.transition_data), x, tail)

\* TransitionBuilder.execute
builder_execute(regs, c, recs, now, b, x, tail) ==
    IF ~Truthy(b._transition_name)
    THEN Raised("ValueError", <<>>, recs, c, {}, {})
    ELSE utils_execute_transition(regs, c, recs, now, b.entity, BuilderArguments(b), x, tail)

-----------------------------------------------------------------------------
(* Concurrent callers of transition_state (state_manager.py) *)

\* two request handlers that call transition_state at the same time
Writers == {"w1", "w2"}

\* the ways a call is interrupted inside the atomic block: by an exception
\* that the except branch catches, or by one it does not catch or the end of
\* the process
Interruptions == {"exception", "kill"}

\* a handler outside transition_state.  pc is the position of a handler in
\* transition_state or in BaseTransition.execute, current_state what it read,
\* pending the record it inserted in its open transaction, inserted the record
\* its transition_state call committed inside execute, outcome how its last
\* call ended
IdleWriter ==
    [pc |-> "idle", entity |-> None, new_state |-> None, current_state |-> None,
     pending |-> {}, inserted |-> {}, outcome |-> None]

\* state_model.objects.create(...) in transition_state
objects_create(now, tail, e, new_state, current_state) ==
    [id |-> generate_uuid7(now, tail),
     entity |-> e,
     state |-> new_state,
     previous_state |-> current_state,
     transition_name |-> TransitionName,
     reason |-> DefaultReason,
     denormalized |-> IF HasDenormalizer(e) THEN DenormalizedFields(e) ELSE {}]

\* the end of the atomic block of a handler p: the transaction commits and
\* True is returned
AtomicExitExpectsPrevious(recs, p) ==
    IF StateOf(get_current_state_object(recs, p.entity)) = p.current_state
    THEN [records |-> recs \cup p.pending, outcome |-> "return_true"]
    ELSE [records |-> recs, outcome |-> "raise"]

atomic_exit(recs, p) == [records |-> recs \cup p.pending, outcome |-> "return_true"]

\* the cache after an interruption inside the atomic block: the except branch
\* deletes the entity's entry; it runs for an Exception only
InterruptKeepsCache(c, e, kind) == c

interrupt(c, e, kind) ==
    IF kind = "exception" THEN [c EXCEPT ![get_cache_key(e)] = None] ELSE c

-----------------------------------------------------------------------------
(* The configured state manager.  settings holds the value of                *)
(* FSM_STATE_MANAGER_CLASS when the setting is present, and is empty when it  *)
(* is not.                                                                    *)

\* the class StateManager of fsm.state_manager
StateManager == "StateManager"

DEFAULT_STATE_MANAGER == StateManager

\* the classes a deployment can name in FSM_STATE_MANAGER_CLASS
StateManagerClasses == {StateManager, "EnterpriseStateManager"}

\* get_state_manager: the class the setting names, or the default one
get_state_manager(s) ==
    IF s # {} THEN CHOOSE manager_class \in s : TRUE ELSE DEFAULT_STATE_MANAGER

-----------------------------------------------------------------------------
(* The record of the most recent call.  repeat tells that a get_current_state *)
(* call directly follows a get_current_state call on the same entity.        *)

NoCall ==
    [repeat |-> FALSE, op |-> "none", entity |-> None, fault |-> None,
     outcome |-> None, exc |-> None, failure |-> None, ret |-> None, dbq |-> 0,
     new |-> {}, fetched |-> {}, trace |-> <<>>, context |-> None, warmed |-> {},
     module |-> None, name |-> None, result |-> {},
     start_time |-> None, end_time |-> {}, limit |-> None, history |-> <<>>,
     status |-> 0, request |-> None, reached |-> {}, count |-> 0, results |-> <<>>,
     manager |-> None]

\* a call record: the fields of NoCall with the operation and its entity
Called(op, e) == [NoCall EXCEPT !.op = op, !.entity = e]

-----------------------------------------------------------------------------
(* Initial state and actions *)

Init ==
    /\ records = {}
    /\ cache = [k \in CacheKeys |-> None]
    /\ clock = 0
    /\ last = NoCall
    /\ builder = NoBuilder
    /\ writers = [w \in Writers |-> IdleWriter]
    /\ settings = {}
    /\ transition_registry = [m \in TransitionRegistryModules |-> EmptyRegistry]
    /\ registrations = [m \in StateModelRegistryModules |-> ImportedModels(m)]
    /\ denormalizers = [k \in EntityKeys |-> None]
    /\ state_models = [m \in StateModelRegistryModules |->
                         RegisterAll([k \in EntityKeys |-> None], ImportedModels(m))]

\* a millisecond passes on the wall clock
Tick ==
    /\ clock < MaxClock
    /\ clock' = clock + 1
    /\ UNCHANGED <<records, cache, last, registry_vars>>

\* the TTL of a cache entry runs out
CacheExpire(e) ==
    /\ cache[get_cache_key(e)] # None
    /\ cache' = [cache EXCEPT ![get_cache_key(e)] = None]
    /\ last' = Called("expire", e)
    /\ UNCHANGED <<records, clock, registry_vars>>

\* a call of StateManager.get_current_state(entity)
GetCurrentState(e, read_ok) ==
    LET g == get_current_state(cache, records, e, read_ok) IN
    /\ cache' = g.cache
    /\ last' = [Called("get_current_state", e) EXCEPT
                    !.repeat = (last.op = "get_current_state" /\ last.entity = e),
                    !.outcome = "return", !.ret = g.ret, !.dbq = g.dbq]
    /\ UNCHANGED <<records, clock, registry_vars>>

\* the generator never returns an id it returned before
FreshTail(tail) == \A r \in records : r.id # generate_uuid7(clock, tail)

\* a call of StateManager.transition_state(entity, new_state, ...)
TransitionState(e, new_state, transition_name, reason, env) ==
    LET t == transition_state(cache, records, clock, e, new_state,
                              transition_name, reason, env) IN
    /\ FreshTail(env.tail)
    /\ records' = t.records
    /\ cache' = t.cache
    /\ last' = [Called("transition_state", e) EXCEPT
                    !.fault = env.fault,
                    !.outcome = t.outcome, !.exc = t.exc, !.failure = t.failure,
                    !.ret = t.current_state, !.new = t.new]
    /\ UNCHANGED <<clock, registry_vars>>

\* a call of StateManager.invalidate_cache(entity)
InvalidateCache(e) ==
    /\ cache' = invalidate_cache(cache, e)
    /\ last' = [Called("invalidate_cache", e) EXCEPT !.outcome = "return"]
    /\ UNCHANGED <<records, clock, registry_vars>>

\* a call of StateManager.warm_cache(entities)
WarmCache(es) ==
    /\ Cardinality(es) <= MaxWarm
    /\ cache' = warm_cache(cache, records, es)
    /\ last' = [Called("warm_cache", None) EXCEPT !.outcome = "return", !.warmed = es]
    /\ UNCHANGED <<records, clock, registry_vars>>

\* a call of StateManager.execute_declarative_transition(transition, entity):
\* the context is built from the entity's current state object, then
\* transition.execute(context) runs
ExecuteDeclarativeTransition(e, target_state, x, tail) ==
    LET current_state_object == get_current_state_object(records, e)
        current_state == StateOf(current_state_object)
        r == execute(cache, records, clock, e, target_state, BehaviourOf(x),
                     [fault |-> FaultOf(x), tail |-> tail])
    IN
    /\ FreshTail(tail)
    /\ records' = r.records
    /\ cache' = r.cache
    /\ last' = [Called("execute", e) EXCEPT
                    !.manager = StateManager, !.fault = x, !.outcome = r.outcome, !.exc = r.exc,
                    !.ret = current_state, !.new = r.new, !.fetched = r.fetched,
                    !.trace = r.trace, !.context = r.context]
    /\ UNCHANGED <<clock, registry_vars>>

\* a request to the admin site for the entity's state records
AdminRequest(kind, e) ==
    /\ records' = admin_request(records, kind, e, get_current_state_object(records, e), clock)
    /\ last' = [Called("admin", None) EXCEPT !.fault = kind, !.outcome = "return"]
    /\ UNCHANGED <<cache, clock, registry_vars>>

\* The current state of an entity as the data model defines it: the state of
\* its record with the largest id, None without records.
CurrentState(recs, e) == StateOf(get_current_state_object(recs, e))

\* the number of transitions registered, over both registries
NumRegistered ==
    Cardinality({mk \in TransitionRegistryModules \X RegistryKeys :
                    transition_registry[mk[1]][mk[2]] # None})

\* a call of transition_registry.register of the module
Register(module, entity_name, transition_name, transition_class) ==
    /\ \/ NumRegistered < MaxRegistered
       \/ transition_registry[module][<<entity_name, transition_name>>] # None
    /\ transition_registry' =
          [transition_registry EXCEPT
              ![module] = register(@, entity_name, transition_name, transition_class)]
    /\ last' = [Called("register", entity_name) EXCEPT
                    !.outcome = "return", !.module = module, !.name = transition_name,
                    !.result = {transition_class}]
    /\ UNCHANGED <<records, cache, clock, settings, state_model_vars, builder, writers>>

\* a call of transition_registry.clear of the module
Clear(module) ==
    /\ transition_registry' = [transition_registry EXCEPT ![module] = clear(@)]
    /\ last' = [Called("clear", None) EXCEPT !.outcome = "return", !.module = module]
    /\ UNCHANGED <<records, cache, clock, settings, state_model_vars, builder, writers>>

\* a call of transition_utils.get_available_transitions(entity)
GetAvailableTransitions(e) ==
    /\ last' = [Called("get_available", e) EXCEPT
                    !.outcome = "return",
                    !.result = get_available_transitions(transition_registry, e)]
    /\ UNCHANGED <<records, cache, clock, registry_vars>>

\* a call of transition_utils.get_valid_transitions(entity, validate=...)
GetValidTransitions(e, validate) ==
    LET v == get_valid_transitions(transition_registry, records, e, validate) IN
    /\ last' = [Called("get_valid", e) EXCEPT
                    !.manager = StateManager,
                    !.outcome = v.outcome, !.result = v.result,
                    !.fault = IF validate THEN "validate" ELSE "no_validate",
                    !.ret = CurrentState(records, e)]
    /\ UNCHANGED <<records, cache, clock, registry_vars>>

\* a call of transition_registry.execute_transition of the module
\* (transition_utils.execute_transition calls the one of fsm.transitions)
ExecuteTransition(module, e, transition_name, data, x, tail) ==
    LET r == execute_transition(transition_registry[module], cache, records, clock, e,
                                transition_name, data, x, tail)
    IN
    /\ FreshTail(tail)
    /\ records' = r.records
    /\ cache' = r.cache
    /\ last' = [Called("execute_transition", e) EXCEPT
                    !.manager = StateManager,
                    !.module = module, !.name = transition_name,
                    !.fault = IF data = "malformed" THEN "malformed" ELSE x,
                    !.outcome = r.outcome, !.exc = r.exc,
                    !.ret = CurrentState(records, e), !.new = r.new,
                    !.fetched = r.fetched, !.trace = r.trace, !.context = r.context]
    /\ UNCHANGED <<clock, registry_vars>>

\* a call of TransitionBuilder(entity): a new builder replaces the one at hand
NewBuilder(e) ==
    /\ builder' = TransitionBuilder(e)
    /\ last' = [Called("TransitionBuilder", e) EXCEPT !.outcome = "return"]
    /\ UNCHANGED <<records, cache, clock, settings, transition_registry, state_model_vars, writers>>

\* a call of one of the methods of the builder that return the builder
BuilderCall(b, method) ==
    /\ builder.entity # None
    /\ Len(builder.calls) < MaxBuilderCalls
    /\ builder' = b
    /\ last' = [Called(method, builder.entity) EXCEPT !.outcome = "return"]
    /\ UNCHANGED <<records, cache, clock, settings, transition_registry, state_model_vars, writers>>

BuilderTransition(name) == BuilderCall(transition(builder, name), "transition")

BuilderWithData(data) == BuilderCall(with_data(builder, data), "with_data")

BuilderByUser(user) == BuilderCall(by_user(builder, user), "by_user")

BuilderWithContext(context) == BuilderCall(with_context(builder, context), "with_context")

\* a call of TransitionBuilder.execute; request is what reached
\* execute_transition, if anything did
BuilderExecute(x, tail) ==
    LET r == builder_execute(transition_registry, cache, records, clock, builder, x, tail)
    IN
    /\ builder.entity # None
    /\ FreshTail(tail)
    /\ records' = r.records
    /\ cache' = r.cache
    /\ last' = [Called("builder_execute", builder.entity) EXCEPT
                    !.module = "fsm.transitions",
                    !.name = builder._transition_name,
                    !.fault = x,
                    !.request = IF Truthy(builder._transition_name)
                                THEN {BuilderArguments(builder)} ELSE {},
                    !.outcome = r.outcome, !.exc = r.exc,
                    !.ret = CurrentState(records, builder.entity), !.new = r.new,
                    !.fetched = r.fetched, !.trace = r.trace, !.context = r.context]
    /\ UNCHANGED <<clock, registry_vars>>

\* the records inserted in transactions that are still open
Pending == UNION {writers[w].pending : w \in Writers}

\* a handler enters transition_state(entity, new_state) and reads the current
\* state through get_current_state
WriterRead(w, e, new_state) ==
    LET g == get_current_state(cache, records, e, TRUE) IN
    /\ writers[w].pc \in {"idle", "done"}
    /\ cache' = g.cache
    /\ writers' = [writers EXCEPT ![w] =
                      [IdleWriter EXCEPT !.pc = "read", !.entity = e,
                                         !.new_state = new_state, !.current_state = g.ret]]
    /\ last' = [Called("writer_read", e) EXCEPT !.ret = g.ret, !.dbq = g.dbq]
    /\ UNCHANGED <<records, clock, settings, transition_registry, state_model_vars, builder>>

\* the handler inserts its record inside its transaction; the id is generated
\* now and is none that was generated before
WriterInsert(w, tail) ==
    LET p == writers[w] IN
    /\ p.pc = "read"
    /\ \A r \in records \cup Pending : r.id # generate_uuid7(clock, tail)
    /\ writers' = [writers EXCEPT ![w] =
                      [p EXCEPT !.pc = "inserted",
                                !.pending = {objects_create(clock, tail, p.entity,
                                                            p.new_state, p.current_state)}]]
    /\ last' = Called("writer_insert", p.entity)
    /\ UNCHANGED <<records, cache, clock, settings, transition_registry, state_model_vars, builder>>

\* the handler sets the cache entry of the entity to its new state
WriterCacheSet(w) ==
    LET p == writers[w] IN
    /\ p.pc = "inserted"
    /\ cache' = [cache EXCEPT ![get_cache_key(p.entity)] = p.new_state]
    /\ writers' = [writers EXCEPT ![w] = [p EXCEPT !.pc = "cached"]]
    /\ last' = Called("writer_cache_set", p.entity)
    /\ UNCHANGED <<records, clock, settings, transition_registry, state_model_vars, builder>>

\* the handler leaves the atomic block and returns
WriterReturn(w) ==
    LET p == writers[w]
        x == atomic_exit(records, p)
    IN
    /\ p.pc = "cached"
    /\ records' = x.records
    /\ writers' = [writers EXCEPT ![w] =
                      [p EXCEPT !.pc = "done", !.pending = {}, !.outcome = x.outcome]]
    /\ last' = [Called("writer_return", p.entity) EXCEPT
                    !.outcome = x.outcome, !.ret = p.current_state,
                    !.new = x.records \ records]
    /\ UNCHANGED <<cache, clock, settings, transition_registry, state_model_vars, builder>>

\* the handler is interrupted after its insert and before the cache update:
\* its transaction is rolled back
WriterInterrupt(w, kind) ==
    LET p == writers[w] IN
    /\ p.pc = "inserted"
    /\ cache' = interrupt(cache, p.entity, kind)
    /\ writers' = [writers EXCEPT ![w] =
                      [p EXCEPT !.pc = "done", !.pending = {},
                                !.outcome = IF kind = "exception" THEN "raise" ELSE "killed"]]
    /\ last' = [Called("interrupt", p.entity) EXCEPT
                    !.fault = kind,
                    !.outcome = IF kind = "exception" THEN "raise" ELSE "killed",
                    !.exc = IF kind = "exception" THEN "StateManagerError" ELSE None]
    /\ UNCHANGED <<records, clock, settings, transition_registry, state_model_vars, builder>>

\* a handler runs BaseTransition.execute up to the return of
\* StateManager.transition_state: validation and pre_hook pass, the record is
\* written and the cache entry set
ExecuteWrite(w, e, target_state, tail) ==
    LET t == transition_state(cache, records, clock, e, target_state, TransitionName,
                              get_reason, [fault |-> "none", tail |-> tail])
    IN
    /\ writers[w].pc \in {"idle", "done"}
    /\ \A r \in records \cup Pending : r.id # generate_uuid7(clock, tail)
    /\ t.outcome = "return_true"
    /\ records' = t.records
    /\ cache' = t.cache
    /\ writers' = [writers EXCEPT ![w] =
                      [IdleWriter EXCEPT !.pc = "written", !.entity = e,
                                         !.new_state = target_state,
                                         !.current_state = t.current_state,
                                         !.inserted = t.new]]
    /\ last' = [Called("execute_write", e) EXCEPT !.ret = t.current_state, !.new = t.new]
    /\ UNCHANGED <<clock, settings, transition_registry, state_model_vars, builder>>

\* the handler goes on in execute: it gets the state record through
\* get_current_state_object, hands it to post_hook and returns it
ExecuteFetch(w) ==
    LET p == writers[w]
        state_record == get_current_state_object(records, p.entity)
    IN
    /\ p.pc = "written"
    /\ writers' = [writers EXCEPT ![w] = [p EXCEPT !.pc = "done", !.outcome = "return"]]
    /\ last' = [Called("execute_return", p.entity) EXCEPT
                    !.outcome = "return", !.ret = p.new_state,
                    !.new = p.inserted, !.fetched = state_record]
    /\ UNCHANGED <<records, cache, clock, settings, transition_registry, state_model_vars, builder>>

\* the number of register calls made on the state model registries
NumRegistrations ==
    Len(registrations["fsm.models"]) - Len(ImportedModels("fsm.models"))
        + Len(registrations["fsm.registry"])

\* a call of register_state_model (fsm.models) or of
\* state_model_registry.register_model (fsm.registry); only the latter takes
\* a denormalizer
RegisterStateModel(module, entity_name, state_model, denormalizer) ==
    /\ NumRegistrations < MaxRegistrations
    /\ module = "fsm.models" => denormalizer = None
    /\ denormalizers' =
          IF module = "fsm.registry"
          THEN register_denormalizer(denormalizers, entity_name, denormalizer)
          ELSE denormalizers
    /\ state_models' =
          [state_models EXCEPT ![module] = register_model(@, entity_name, state_model)]
    /\ registrations' =
          [registrations EXCEPT ![module] =
              Append(@, <<entity_name, state_model, denormalizer>>)]
    /\ last' = [Called("register_state_model", None) EXCEPT
                    !.outcome = "return", !.module = module, !.name = entity_name,
                    !.result = {state_model}]
    /\ UNCHANGED <<records, cache, clock, settings, transition_registry, builder, writers>>

\* a call of get_state_model (fsm.models) or of state_model_registry.get_model
\* (fsm.registry)
GetStateModel(module, entity_name) ==
    /\ last' = [Called("get_state_model", None) EXCEPT
                    !.outcome = "return", !.module = module, !.name = entity_name,
                    !.result = {get_model(state_models[module], entity_name)}]
    /\ UNCHANGED <<records, cache, clock, registry_vars>>

\* a call of state_model_registry.get_denormalizer
GetDenormalizer(entity_name) ==
    /\ last' = [Called("get_denormalizer", None) EXCEPT
                    !.outcome = "return", !.module = "fsm.registry",
                    !.name = entity_name,
                    !.result = {get_denormalizer(denormalizers, entity_name)}]
    /\ UNCHANGED <<records, cache, clock, registry_vars>>

\* a call of StateManager.get_states_in_time_range(entity, start_time, end_time)
GetStatesInTimeRange(e, start_time, end_time) ==
    /\ last' = [Called("get_states_in_time_range", e) EXCEPT
                    !.outcome = "return", !.start_time = start_time,
                    !.end_time = end_time,
                    !.result = get_states_in_time_range(records, clock, e,
                                                        start_time, end_time)]
    /\ UNCHANGED <<records, cache, clock, registry_vars>>

\* a call of StateManager.get_state_history(entity, limit)
GetStateHistory(e, limit) ==
    /\ last' = [Called("get_state_history", e) EXCEPT
                    !.outcome = "return", !.limit = limit,
                    !.history = get_state_history(records, e, limit)]
    /\ UNCHANGED <<records, cache, clock, registry_vars>>

\* a GET request on the history endpoint of a view set
ApiStateHistory(viewset, entity_type, exists, param) ==
    LET r == state_history(viewset, records, entity_type, exists, param) IN
    /\ last' = [Called("state_history", entity_type) EXCEPT
                    !.outcome = "return", !.module = viewset, !.request = param,
                    !.status = r.status, !.reached = r.reached,
                    !.count = r.count, !.results = r.results]
    /\ UNCHANGED <<records, cache, clock, registry_vars>>

\* a POST request on the transition endpoint of a view set
ApiTransitionState(viewset, entity_type, exists, data, env) ==
    LET r == api_transition_state(viewset, cache, records, clock, entity_type,
                                  exists, data, env)
    IN
    /\ FreshTail(env.tail)
    /\ records' = r.records
    /\ cache' = r.cache
    /\ last' = [Called("api_transition_state", entity_type) EXCEPT
                    !.manager = get_state_manager(settings),
                    !.outcome = "return", !.module = viewset, !.request = data,
                    !.fault = env.fault, !.status = r.status,
                    !.failure = r.failure, !.new = r.new, !.ret = r.previous_state]
    /\ UNCHANGED <<clock, registry_vars>>

\* the deployment sets FSM_STATE_MANAGER_CLASS, or removes the setting
Configure(s) ==
    /\ settings # s
    /\ settings' = s
    /\ last' = Called("configure", None)
    /\ UNCHANGED <<records, cache, clock, transition_registry, state_model_vars,
                   builder, writers>>

\* FSMIntegrationMixin.transition_fsm_state on an entity
TransitionFsmState(e, new_state, transition_name, reason, env) ==
    LET t == transition_state(cache, records, clock, e, new_state,
                              transition_name, reason, env) IN
    /\ FreshTail(env.tail)
    /\ records' = t.records
    /\ cache' = t.cache
    /\ last' = [Called("transition_fsm_state", e) EXCEPT
                    !.manager = get_state_manager(settings),
                    !.fault = env.fault,
                    !.outcome = t.outcome, !.exc = t.exc, !.failure = t.failure,
                    !.ret = t.current_state, !.new = t.new]
    /\ UNCHANGED <<clock, registry_vars>>

\* the store has room for one more record within the model's bound
Room(bound) == Cardinality(records) < bound

Next ==
    \/ Tick
    \/ \E e \in Entities : CacheExpire(e)
    \/ \E e \in Entities, read_ok \in BOOLEAN : GetCurrentState(e, read_ok)
    \/ \E e \in Entities, s \in States, n \in TransitionNames, r \in Reasons,
          env \in Environments : Room(MaxRecords) /\ TransitionState(e, s, n, r, env)
    \/ \E e \in Entities : InvalidateCache(e)
    \/ \E es \in SUBSET Entities : WarmCache(es)
    \/ \E e \in Entities, s \in States, x \in ExecuteFaults, tail \in 0 .. (NumTails - 1) :
          Room(MaxRecords) /\ ExecuteDeclarativeTransition(e, s, x, tail)
    \/ \E kind \in AdminRequests, e \in Entities : AdminRequest(kind, e)

Spec == Init /\ [][Next]_vars

\* Longer histories of one entity: the calls that read and write the state of
\* the entity "project", with room for MaxChain records
ChainNext ==
    \/ Tick
    \/ CacheExpire("project")
    \/ \E read_ok \in BOOLEAN : GetCurrentState("project", read_ok)
    \/ \E s \in States, n \in TransitionNames, r \in Reasons, env \in Environments :
          Room(MaxChain) /\ TransitionState("project", s, n, r, env)
    \/ InvalidateCache("project")

ChainSpec == Init /\ [][ChainNext]_vars

\* The state manager alone: reads, writes with the default reason,
\* invalidations and expiries on every entity, within one millisecond
ManagerNext ==
    \/ \E e \in Entities : CacheExpire(e)
    \/ \E e \in Entities, read_ok \in BOOLEAN : GetCurrentState(e, read_ok)
    \/ \E e \in Entities, s \in States, n \in TransitionNames, env \in Environments :
          Room(MaxRecords) /\ TransitionState(e, s, n, DefaultReason, env)
    \/ \E e \in Entities : InvalidateCache(e)

ManagerSpec == Init /\ [][ManagerNext]_vars

\* The operations that reach the store of state records for writing: the
\* write path of the state manager, the declarative transitions and the admin
\* surface (the other operations read the store and write the cache)
FrameworkNext ==
    \/ Tick
    \/ \E e \in Entities, s \in States, n \in TransitionNames, r \in Reasons,
          env \in Environments : Room(MaxFramework) /\ TransitionState(e, s, n, r, env)
    \/ \E e \in Entities, s \in States, x \in ExecuteFaults, tail \in 0 .. (NumTails - 1) :
          Room(MaxFramework) /\ ExecuteDeclarativeTransition(e, s, x, tail)
    \/ \E kind \in AdminRequests, e \in Entities : AdminRequest(kind, e)

FrameworkSpec == Init /\ [][FrameworkNext]_vars

\* The transition registries and the helpers that read them, on the entities
\* that transitions are registered for
RegistryNext ==
    \/ \E m \in TransitionRegistryModules, e \in RegistryEntities, n \in RegisteredNames,
          cls \in TransitionClasses : Register(m, e, n, cls)
    \/ \E m \in TransitionRegistryModules : Clear(m)
    \/ \E e \in LookupEntities : GetAvailableTransitions(e)
    \/ \E e \in LookupEntities, validate \in BOOLEAN : GetValidTransitions(e, validate)
    \/ \E m \in TransitionRegistryModules, e \in LookupEntities, n \in RegisteredNames,
          data \in TransitionData, x \in RegistryFaults, tail \in 0 .. (NumTails - 1) :
          Room(MaxFramework) /\ ExecuteTransition(m, e, n, data, x, tail)

RegistrySpec == Init /\ [][RegistryNext]_vars

\* The write path and the time-range query, on an entity type with a state
\* model and on one without
TimeRangeEntities == {"project", "document"}

TimeRangeNext ==
    \/ Tick
    \/ \E e \in TimeRangeEntities, s \in States, n \in TransitionNames,
          env \in Environments :
          Room(MaxRecords) /\ TransitionState(e, s, n, DefaultReason, env)
    \/ \E e \in TimeRangeEntities, start_time \in 0 .. MaxClock,
          end_time \in {{}} \cup {{t} : t \in 0 .. MaxClock} :
          GetStatesInTimeRange(e, start_time, end_time)

TimeRangeSpec == Init /\ [][TimeRangeNext]_vars

\* The write path and the history query, on two entity types
HistoryEntities == {"project", "comment"}

HistoryNext ==
    \/ Tick
    \/ \E e \in HistoryEntities, s \in States, n \in TransitionNames,
          tail \in 0 .. (NumTails - 1) :
          Room(MaxChain)
          /\ TransitionState(e, s, n, DefaultReason, [fault |-> "none", tail |-> tail])
    \/ \E e \in HistoryEntities, limit \in 0 .. MaxLimit : GetStateHistory(e, limit)

HistorySpec == Init /\ [][HistoryNext]_vars

\* The API surface
ApiNext ==
    \/ \E v \in ViewSets, t \in EntityTypes, exists \in BOOLEAN, param \in LimitParams :
          ApiStateHistory(v, t, exists, param)
    \/ \E v \in ViewSets, t \in EntityTypes, exists \in BOOLEAN, data \in RequestData,
          env \in Environments :
          Room(MaxFramework) /\ ApiTransitionState(v, t, exists, data, env)

ApiSpec == Init /\ [][ApiNext]_vars

\* The write path over every pair of a current state and a new state, the
\* terminal state included
GraphEntities == {"task", "project"}

GraphStates == {"CREATED", "IN_PROGRESS", "COMPLETED"}

GraphNext ==
    \/ Tick
    \/ \E e \in GraphEntities, s \in GraphStates, n \in TransitionNames,
          env \in Environments :
          Room(MaxRecords) /\ TransitionState(e, s, n, DefaultReason, env)

GraphSpec == Init /\ [][GraphNext]_vars

\* The fluent builder over the registry that transition_utils imports
BuilderNext ==
    \/ \E e \in BuilderEntities : Register("fsm.transitions", e, "test_transition", "TestTransition")
    \/ \E e \in BuilderEntities : NewBuilder(e)
    \/ \E name \in BuilderNames : BuilderTransition(name)
    \/ \E data \in DataKwargs : BuilderWithData(data)
    \/ \E user \in Users : BuilderByUser(user)
    \/ \E context \in ContextKwargs : BuilderWithContext(context)
    \/ \E x \in RegistryFaults, tail \in 0 .. (NumTails - 1) :
          Room(MaxFramework) /\ BuilderExecute(x, tail)

BuilderSpec == Init /\ [][BuilderNext]_vars

\* Two handlers that call transition_state on one entity within one
\* millisecond, and a reader
ConcurrentEntities == {"project"}

ConcurrentNext ==
    \/ \E w \in Writers, e \in ConcurrentEntities, s \in States :
          Cardinality(records) + Cardinality(Pending) < MaxRecords /\ WriterRead(w, e, s)
    \/ \E w \in Writers, tail \in 0 .. (NumTails - 1) : WriterInsert(w, tail)
    \/ \E w \in Writers : WriterCacheSet(w)
    \/ \E w \in Writers : WriterReturn(w)
    \/ \E w \in Writers, kind \in Interruptions : WriterInterrupt(w, kind)
    \/ \E e \in ConcurrentEntities : GetCurrentState(e, TRUE)

ConcurrentSpec == Init /\ [][ConcurrentNext]_vars

\* Calls on two entities, the steps of concurrent transition_state calls
\* interleaved with the other operations of the manager
FrameEntities == {"project", "comment"}

FrameNext ==
    \/ \E w \in Writers, e \in FrameEntities :
          Cardinality(records) + Cardinality(Pending) < MaxRecords
          /\ WriterRead(w, e, "CREATED")
    \/ \E w \in Writers, tail \in 0 .. (NumTails - 1) : WriterInsert(w, tail)
    \/ \E w \in Writers : WriterCacheSet(w)
    \/ \E w \in Writers : WriterReturn(w)
    \/ \E e \in FrameEntities : GetCurrentState(e, TRUE)
    \/ \E e \in FrameEntities : InvalidateCache(e)
    \/ \E es \in SUBSET FrameEntities : WarmCache(es)

FrameSpec == Init /\ [][FrameNext]_vars

\* Two handlers that execute declarative transitions on one entity at the
\* same time
ExecuteRaceNext ==
    \/ Tick
    \/ \E w \in Writers, e \in ConcurrentEntities, s \in States,
          tail \in 0 .. (NumTails - 1) :
          Room(MaxRecords) /\ ExecuteWrite(w, e, s, tail)
    \/ \E w \in Writers : ExecuteFetch(w)

ExecuteRaceSpec == Init /\ [][ExecuteRaceNext]_vars

\* Declarative transitions on one entity after transitions, failed writes and
\* cache invalidations, with room for MaxChain records
ExecuteChainNext ==
    \/ Tick
    \/ \E s \in States, env \in Environments :
          Room(MaxChain) /\ TransitionState("project", s, TransitionName, DefaultReason, env)
    \/ InvalidateCache("project")
    \/ \E s \in States, x \in ExecuteFaults, tail \in 0 .. (NumTails - 1) :
          Room(MaxChain) /\ ExecuteDeclarativeTransition("project", s, x, tail)

ExecuteChainSpec == Init /\ [][ExecuteChainNext]_vars

\* The state model registries
\* A deployment that configures the state manager class: the entry points
\* that write or read the state of one entity.
SettingsEntities == {"project"}

SettingsNext ==
    \/ \E s \in {{}} \cup {{c} : c \in StateManagerClasses} : Configure(s)
    \/ \E v \in ViewSets, t \in EntityTypes, exists \in BOOLEAN, data \in RequestData,
          env \in Environments :
          Room(MaxFramework) /\ ApiTransitionState(v, t, exists, data, env)
    \/ \E e \in SettingsEntities, s \in States, env \in Environments :
          Room(MaxFramework) /\ TransitionFsmState(e, s, TransitionName, DefaultReason, env)
    \/ \E e \in SettingsEntities, s \in States, x \in ExecuteFaults,
          tail \in 0 .. (NumTails - 1) :
          Room(MaxFramework) /\ ExecuteDeclarativeTransition(e, s, x, tail)
    \/ \E e \in SettingsEntities, validate \in BOOLEAN : GetValidTransitions(e, validate)

SettingsSpec == Init /\ [][SettingsNext]_vars

\* Reads of the store that fail: the reads and writes of the state of one
\* entity, and the loss of its cache entry.
ReadFailureEntities == {"project"}

ReadFailureNext ==
    \/ \E e \in ReadFailureEntities, read_ok \in BOOLEAN : GetCurrentState(e, read_ok)
    \/ \E e \in ReadFailureEntities, s \in States, env \in ReadEnvironments :
          Room(MaxChain) /\ TransitionState(e, s, TransitionName, DefaultReason, env)
    \/ \E e \in ReadFailureEntities : InvalidateCache(e)
    \/ \E e \in ReadFailureEntities : CacheExpire(e)

ReadFailureSpec == Init /\ [][ReadFailureNext]_vars

StateModelNext ==
    \/ \E m \in StateModelRegistryModules, n \in EntityNames, t \in StateModelClasses :
          RegisterStateModel(m, n, t, None)
    \/ \E m \in StateModelRegistryModules, n \in EntityNames : GetStateModel(m, n)

StateModelSpec == Init /\ [][StateModelNext]_vars

\* The registry of fsm.registry with denormalizers: registrations with and
\* without a denormalizer, and lookups.
DenormalizerNext ==
    \/ \E n \in EntityNames, t \in StateModelClasses, d \in Denormalizers \cup {None} :
          RegisterStateModel("fsm.registry", n, t, d)
    \/ \E n \in EntityNames : GetStateModel("fsm.registry", n)
    \/ \E n \in EntityNames : GetDenormalizer(n)

DenormalizerSpec == Init /\ [][DenormalizerNext]_vars

-----------------------------------------------------------------------------
(* Properties *)

\* This step is a transition_state call, or a step of an execute call: every
\* action but Tick writes last, only TransitionState writes the operation
\* "transition_state" and only ExecuteDeclarativeTransition writes "execute".
TransitionCalled == last'.op = "transition_state" /\ clock' = clock

ExecuteCalled == last'.op = "execute" /\ clock' = clock

\* this step is a transition_state call that returned true
TransitionReturned ==
    /\ last'.op = "transition_state"
    /\ last'.outcome = "return_true"
    /\ last' # last

\* C1: for every entity with at least one state record, whatever calls,
\* invalidations and expiries came before, get_current_state returns the state
\* of the entity's record with the maximum id.
C1_CurrentStateIsMaxId ==
    \A e \in Entities :
        EntityRecords(records, e) # {} =>
            get_current_state(cache, records, e, TRUE).ret = CurrentState(records, e)

\* a state C1 speaks about: an entity with two records, read after a
\* transition and a cache expiry
C1_Witness ==
    /\ last.op = "get_current_state"
    /\ Cardinality(EntityRecords(records, last.entity)) = 2
    /\ last.dbq = 1

\* C2: after N successful transition_state calls on an entity, its history of
\* limit N has N records in strictly decreasing id order, each record's
\* previous_state is the state of the record with the next-lower id, and the
\* oldest record's previous_state is null.
C2_HistoryChain ==
    \A e \in Entities :
        LET n == Cardinality(EntityRecords(records, e))
            h == get_state_history(records, e, n)
        IN  n > 0 =>
              /\ Len(h) = n
              /\ \A i \in 1 .. (n - 1) :
                    /\ h[i].id > h[i + 1].id
                    /\ h[i].previous_state = h[i + 1].state
              /\ h[n].previous_state = None

\* a state C2 speaks about: two transitions of one entity have returned true
C2_Witness ==
    /\ last.op = "transition_state"
    /\ last.outcome = "return_true"
    /\ Cardinality(EntityRecords(records, last.entity)) = 2

\* C3: a transition_state(E, s, reason = r) call that returns true adds exactly
\* one record, of E, with state s, reason r and previous_state equal to E's
\* current state before the call (null without records), and the next
\* get_current_state(E) returns s.
C3_TransitionEffect ==
    [][TransitionReturned =>
        \A s \in States, n \in TransitionNames, r \in Reasons, env \in Environments :
            TransitionState(last'.entity, s, n, r, env) =>
                \E rec \in records' \ records :
                    /\ records' = records \cup {rec}
                    /\ rec.entity = last'.entity
                    /\ rec.state = s
                    /\ rec.reason = r
                    /\ rec.previous_state = CurrentState(records, last'.entity)
                    /\ get_current_state(cache', records', last'.entity, TRUE).ret = s]_vars

\* a state C3 speaks about: the third transition of an entity has returned true
C3_Witness ==
    /\ last.op = "transition_state"
    /\ last.outcome = "return_true"
    /\ Cardinality(EntityRecords(records, last.entity)) = 3

\* s is an initial segment of t
IsPrefix(s, t) == Len(s) <= Len(t) /\ s = SubSeq(t, 1, Len(s))

\* C4 as stated: for every entity, with or without records, a get_current_state
\* call that directly follows a get_current_state call on the same entity
\* returns the same value and sends no query to the persistence substrate.
C4_RepeatedReadAnyEntity ==
    [][\A e \in Entities, read_ok \in BOOLEAN :
          (last.op = "get_current_state" /\ last.entity = e /\ GetCurrentState(e, read_ok))
              => (last'.ret = last.ret /\ last'.dbq = 0)]_vars

\* C4 amended: a get_current_state call that directly follows a
\* get_current_state call on the same entity which returned a state (not None)
\* returns that state again and sends no query to the persistence substrate.
C4_RepeatedReadHit ==
    [][\A e \in Entities, read_ok \in BOOLEAN :
          (/\ last.op = "get_current_state"
           /\ last.entity = e
           /\ last.ret # None
           /\ GetCurrentState(e, read_ok))
              => (last'.ret = last.ret /\ last'.dbq = 0)]_vars

\* a state C4 speaks about: the second of two consecutive reads of an entity
\* with records, served from the cache
C4_Witness ==
    /\ last.op = "get_current_state"
    /\ last.repeat
    /\ last.ret # None
    /\ last.dbq = 0
    /\ EntityRecords(records, last.entity) # {}

C7_DenormalizeSuppressed ==
    (/\ last.op = "transition_state"
     /\ last.fault = "denormalize"
     /\ HasDenormalizer(last.entity))
        => /\ last.outcome = "return_true"
           /\ Cardinality(last.new) = 1
           /\ \A rec \in last.new : rec.denormalized = {}
           /\ last.new \subseteq records
           /\ cache[get_cache_key(last.entity)] = StateOf(last.new)

\* a state C7 speaks about: get_denormalized_fields has raised in a
\* transition_state call
C7_Witness ==
    /\ last.op = "transition_state"
    /\ last.fault = "denormalize"
    /\ HasDenormalizer(last.entity)

C9_ExecuteOrder ==
    [][ExecuteCalled =>
          /\ IsPrefix(last'.trace, ExecuteSteps)
          /\ (last'.outcome = "return") = (last'.trace = ExecuteSteps)
          /\ (last'.outcome = "raise") = (last'.trace # ExecuteSteps)
          /\ (records' # records) = (Len(last'.trace) >= 5)
          /\ (last'.fetched # {}) = (Len(last'.trace) >= 5)
          /\ (last'.fault = "pre_hook" => Len(last'.trace) = 2)
          /\ (last'.fault = "transition" => Len(last'.trace) = 3)
          /\ (last'.fault \in {"check_false", "validate_false", "validate_raise"} =>
                /\ last'.outcome = "raise"
                /\ last'.exc = "TransitionValidationError"
                /\ last'.trace = <<"validate_transition">>
                /\ records' = records)]_vars

\* a state C9 speaks about: an execute call ran all its steps and wrote and
\* fetched the entity's record
C9_Witness ==
    /\ last.op = "execute"
    /\ last.outcome = "return"
    /\ last.trace = ExecuteSteps
    /\ last.fetched = EntityRecords(records, last.entity)
    /\ last.fetched # {}

\* post_transition_hook raised in the most recent execute call
PostHookRaised ==
    /\ last.op = "execute"
    /\ last.fault = "post_hook"
    /\ Len(last.trace) = 6

\* C10: when post_hook raises during execute, the exception reaches the
\* caller, and the record that execute wrote is in the store and is the
\* entity's current state record.
C10_PostHookKeepsRecord ==
    PostHookRaised =>
        /\ last.outcome = "raise"
        /\ last.exc = "HookError"
        /\ Cardinality(last.new) = 1
        /\ last.new \subseteq records
        /\ get_current_state_object(records, last.entity) = last.new

\* a state C10 speaks about: post_hook raised in an execute call on an entity
\* that already had a record
C10_Witness ==
    /\ PostHookRaised
    /\ Cardinality(EntityRecords(records, last.entity)) = 2

\* a hook raised in the most recent execute call
HookRaised == last.op = "execute" /\ last.exc = "HookError"

\* C11 as stated: every hook failure that leaves execute, from pre_hook or
\* from post_hook, comes with the state record of the transition persisted.
C11_HookFailureAfterWrite ==
    HookRaised => (Cardinality(last.new) = 1 /\ last.new \subseteq records)

\* C11 amended: a post_hook failure leaves execute with the state record of
\* the transition persisted; a pre_hook failure leaves execute before the
\* write, with no record of the transition in the store.
C11_PostHookAfterWrite ==
    [][(ExecuteCalled /\ last'.exc = "HookError") =>
          IF last'.fault = "post_hook"
          THEN /\ Cardinality(last'.new) = 1
               /\ last'.new \cap records = {}
               /\ records' = records \cup last'.new
          ELSE /\ last'.fault = "pre_hook"
               /\ last'.new = {}
               /\ records' = records]_vars

\* a state C11 speaks about: post_hook raised and the record of the
\* transition is the one record of the store
C11_Witness ==
    /\ HookRaised
    /\ last.fault = "post_hook"
    /\ records = last.new
    /\ records # {}

\* C12: whenever execute raises, the context reference of the transition
\* instance is None when the exception reaches the caller, and the store is
\* left as the steps before the exception made it: nothing is removed, and a
\* record written before a post_hook failure stays.
C12_RaiseClearsContext ==
    [][(ExecuteCalled /\ last'.outcome = "raise") =>
          /\ last'.context = None
          /\ records' = records \cup last'.new
          /\ (Len(last'.trace) <= 4) = (records' = records)]_vars

\* a state C12 speaks about: the write of an execute call failed and the
\* exception reached the caller
C12_Witness ==
    /\ last.op = "execute"
    /\ last.outcome = "raise"
    /\ last.exc = "StateManagerError"
    /\ last.context = None

\* C13: validate incorporates the class-level check: when
\* can_transition_from_state returns false, validate_transition does not
\* return true, execute raises TransitionValidationError and no state record
\* is written.
C13_ClassCheckIncorporated ==
    /\ \A beh \in Behaviours : beh.can = "false" => validate_transition(beh) # "true"
    /\ [][(ExecuteCalled /\ last'.fault = "check_false") =>
              /\ last'.outcome = "raise"
              /\ last'.exc = "TransitionValidationError"
              /\ last'.trace = <<"validate_transition">>
              /\ last'.new = {}
              /\ records' = records]_vars

\* a state C13 speaks about: execute has run a transition whose class-level
\* check returned false, on an entity whose state model would have taken the
\* record
C13_Witness ==
    /\ last.op = "execute"
    /\ last.fault = "check_false"
    /\ last.entity = "project"
    /\ last.exc = "TransitionValidationError"


\* a step that is a call of execute_transition on one of the registries
RegistryExecuteCalled == last'.op = "execute_transition" /\ clock' = clock

\* the entry of the registry of the module under the entity type and the name
\* of the most recent call, None when there is none
EntryOf(regs, call) ==
    IF <<call.entity, call.name>> \in RegistryKeys
    THEN regs[call.module][<<call.entity, call.name>>]
    ELSE None

\* C14: a registry execute call with a transition name that is not registered
\* for the entity type raises ValueError, not the validation error, and leaves
\* the state records and the cache as they were.
C14_UnregisteredIsValueError ==
    [][(RegistryExecuteCalled /\ EntryOf(transition_registry, last') = None) =>
          /\ last'.outcome = "raise"
          /\ last'.exc = "ValueError"
          /\ last'.exc # "TransitionValidationError"
          /\ last'.trace = <<"get_transition">>
          /\ records' = records
          /\ cache' = cache]_vars

\* the name is registered, but for another entity type than the call's
C14_Witness ==
    /\ last.op = "execute_transition"
    /\ last.exc = "ValueError"
    /\ last.entity = "task"
    /\ transition_registry[last.module][<<"project", last.name>>] # None

\* C15: a registry execute call whose input data violates a declared field
\* constraint fails with a validation error when the instance is constructed,
\* before the current state is read, and leaves records and cache as they were.
C15_InvalidDataFailsAtConstruction ==
    [][(/\ RegistryExecuteCalled
        /\ EntryOf(transition_registry, last') # None
        /\ last'.fault = "malformed") =>
          /\ last'.outcome = "raise"
          /\ last'.exc = "ValidationError"
          /\ last'.trace = <<"get_transition", "construct">>
          /\ records' = records
          /\ cache' = cache]_vars

C15_Witness ==
    /\ last.op = "execute_transition"
    /\ last.fault = "malformed"
    /\ last.exc = "ValidationError"
    /\ EntryOf(transition_registry, last) # None


\* a step that is a call of get_valid_transitions with validation
GetValidCalled ==
    last'.op = "get_valid" /\ last'.fault = "validate" /\ clock' = clock

\* C16: get_valid_transitions(entity) returns exactly the transitions
\* registered for the entity's type whose class-level check returns true for
\* the entity's current state: each such transition is in the result and one
\* whose check returns false is not.
C16_ValidIsExactlyApplicable ==
    [][GetValidCalled =>
          LET available == get_available_transitions(transition_registry, last'.entity)
              current_state == CurrentState(records, last'.entity)
          IN  /\ last'.result \subseteq available
              /\ \A item \in available :
                    /\ can_transition_from_state(item[2], current_state) = "true"
                          => item \in last'.result
                    /\ can_transition_from_state(item[2], current_state) = "false"
                          => item \notin last'.result]_vars

\* a state C16 speaks about: a call for an entity with a registered transition
\* whose class-level check returns true and whose class has no class-level
\* target state
C16_Witness ==
    /\ last.op = "get_valid"
    /\ last.fault = "validate"
    /\ \E item \in get_available_transitions(transition_registry, last.entity) :
          /\ can_transition_from_state(item[2], last.ret) = "true"
          /\ get_target_state(item[2]) = None

\* C17: when the class-level check of a registered transition raises,
\* get_valid_transitions still returns: that candidate is left out and every
\* other registered transition whose own check returns true is in the result.
C17_BrokenCandidateSkipped ==
    [][GetValidCalled =>
          LET available == get_available_transitions(transition_registry, last'.entity)
              current_state == CurrentState(records, last'.entity)
          IN  (\E broken \in available :
                  can_transition_from_state(broken[2], current_state) = "raise")
              => /\ last'.outcome = "return"
                 /\ \A item \in available :
                       /\ can_transition_from_state(item[2], current_state) = "raise"
                             => item \notin last'.result
                       /\ can_transition_from_state(item[2], current_state) = "true"
                             => item \in last'.result]_vars

\* a state C17 speaks about: a call for an entity with a registered transition
\* whose check raises and another registered transition
C17_Witness ==
    /\ last.op = "get_valid"
    /\ last.fault = "validate"
    /\ last.outcome = "return"
    /\ \E broken, other \in get_available_transitions(transition_registry, last.entity) :
          /\ can_transition_from_state(broken[2], last.ret) = "raise"
          /\ broken \notin last.result
          /\ other # broken
          /\ can_transition_from_state(other[2], last.ret) = "true"

\* C18: a transition class registered under (entity_name, name) on the
\* registry of fsm.registry, and neither cleared nor re-registered since, is
\* what get_transition of that registry returns for (entity_name, name), and
\* get_available_transitions for an entity of that type maps name to it.
C18_RegisteredIsAvailable ==
    \A e \in RegistryEntities, n \in RegisteredNames :
        LET T == transition_registry["fsm.registry"][<<e, n>>]
        IN  T # None =>
              /\ get_transition(transition_registry["fsm.registry"], e, n) = T
              /\ <<n, T>> \in get_available_transitions(transition_registry, e)

\* a state C18 speaks about: register has just been called on the registry of
\* fsm.registry
C18_Witness ==
    /\ last.op = "register"
    /\ last.module = "fsm.registry"
    /\ {get_transition(transition_registry["fsm.registry"], last.entity, last.name)}
          = last.result

\* two entity names are equal ignoring case
EqualIgnoringCase(a, b) == lower(a) = lower(b)

\* the state model of the most recent registration of a sequence whose entity
\* name equals the name ignoring case, None when there is none
MostRecent(regs, entity_name) ==
    LET matching == {i \in DOMAIN regs : EqualIgnoringCase(regs[i][1], entity_name)}
    IN  IF matching = {} THEN None
        ELSE regs[CHOOSE i \in matching : \A j \in matching : j <= i][2]

\* C19: after any sequence of registrations of state models, the lookup of a
\* name returns the class of the most recent registration whose entity name
\* equals the name ignoring case, and None when there is none; a registration
\* that collides with an earlier one returns without raising; registering the
\* same (name, class) a second time leaves the registry as the first did.
C19_LastRegistrationWins ==
    /\ \A m \in StateModelRegistryModules, n \in EntityNames :
          get_model(state_models[m], n) = MostRecent(registrations[m], n)
    /\ last.op = "register_state_model" => last.outcome = "return"
    /\ \A m \in StateModelRegistryModules, n \in EntityNames, t \in StateModelClasses :
          LET once == register_model(state_models[m], n, t)
          IN  register_model(once, n, t) = once

\* a name was registered twice in different case with different classes, the
\* second registration being the most recent call
C19_Witness ==
    /\ last.op = "register_state_model"
    /\ \E i \in DOMAIN registrations[last.module] :
          LET reg == registrations[last.module][i]
          IN  /\ i < Len(registrations[last.module])
              /\ reg[1] # last.name
              /\ EqualIgnoringCase(reg[1], last.name)
              /\ {reg[2]} # last.result
    /\ {get_model(state_models[last.module], "task")} = last.result

\* a step that is a call of get_states_in_time_range
TimeRangeCalled == last'.op = "get_states_in_time_range" /\ clock' = clock

\* C20: get_states_in_time_range(E, t0, t1) returns exactly the records of E
\* whose id decodes to a timestamp in the closed interval [t0, t1], t1 being
\* the current time when it is not given: the same set as the full history of
\* E filtered by decoded timestamp.
C20_TimeRangeExact ==
    [][TimeRangeCalled =>
          LET t1 == IF last'.end_time = {} THEN clock
                    ELSE CHOOSE t \in last'.end_time : TRUE
          IN  last'.result =
                {r \in EntityRecords(records, last'.entity) :
                    /\ last'.start_time <= timestamp_from_uuid7(r.id)
                    /\ timestamp_from_uuid7(r.id) <= t1}]_vars

\* a call that returned a record of the last millisecond of the range that is
\* not the first id of that millisecond, and left a record of the entity out
C20_Witness ==
    /\ last.op = "get_states_in_time_range"
    /\ \E r \in last.result :
          /\ {timestamp_from_uuid7(r.id)} = last.end_time
          /\ r.id # generate_uuid7(timestamp_from_uuid7(r.id), 0)
    /\ EntityRecords(records, last.entity) \ last.result # {}

\* C21: get_state_history(E, limit) returns min(limit, number of records of E)
\* records: records of E only, largest id first, and every record of E that
\* is left out has a smaller id than every record returned.
C21_HistoryNewestFirst ==
    last.op = "get_state_history" =>
        LET h == last.history
            rs == EntityRecords(records, last.entity)
            returned == {h[i] : i \in DOMAIN h}
        IN  /\ Len(h) = Min(last.limit, Cardinality(rs))
            /\ returned \subseteq rs
            /\ \A i, j \in DOMAIN h : i < j => h[i].id > h[j].id
            /\ \A r \in rs \ returned : \A q \in returned : r.id < q.id

\* a call whose limit cut the history of an entity, with a record of another
\* entity in the store
C21_Witness ==
    /\ last.op = "get_state_history"
    /\ last.limit >= 1
    /\ Len(last.history) = last.limit
    /\ Cardinality(EntityRecords(records, last.entity)) > last.limit
    /\ records # EntityRecords(records, last.entity)

\* C22: whatever limit a client requests on the history endpoint, the limit
\* handed to get_state_history is at most 1000, a request of 10000 is handed
\* on as 1000, and the count of a response equals the number of its results.
C22_HistoryLimitClamped ==
    last.op = "state_history" =>
        /\ \A limit \in last.reached : limit <= MaxHistoryLimit
        /\ (last.status = 200 /\ last.request.kind = "int"
                /\ last.request.value = 10000) => last.reached = {MaxHistoryLimit}
        /\ last.status = 200 => last.count = Len(last.results)

\* a request of 10000 that reached the state manager and returned records
C22_Witness ==
    /\ last.op = "state_history"
    /\ last.request.kind = "int"
    /\ last.request.value = 10000
    /\ last.reached # {}
    /\ last.count = 1

\* C23: on the POST transition endpoint an unknown entity type or id is
\* answered not-found (404), a failed transition, by a failure of the state
\* manager or by rejected request data, is answered bad-request (400), only
\* an error of another kind is answered server-error (500), and a request
\* that failed has inserted no record.
C23_ErrorClassesDistinct ==
    last.op = "api_transition_state" =>
        /\ last.failure = "not_found" => last.status = 404
        /\ last.failure \in {"invalid_data", "manager_raised", "manager_false"}
              => last.status = 400
        /\ last.status = 500
              => last.failure \notin {"not_found", "invalid_data",
                                      "manager_raised", "manager_false"}
        /\ last.status # 200 => last.new = {}

\* a state C23 speaks about: a request with rejected data, and one on which
\* the state manager failed
C23_Witness ==
    /\ last.op = "api_transition_state"
    /\ last.failure \in {"invalid_data", "manager_raised"}
    /\ last.new = {}

\* a step that is a POST request on the transition endpoint
ApiTransitionCalled == last'.op = "api_transition_state" /\ clock' = clock

\* the new_state of a request body is empty or whitespace only
Blank(data) == \A raw \in data : strip(raw) = ""

\* C24: the state that a POST transition stores is the new_state of the
\* request with surrounding whitespace removed and letters upper-cased,
\* normalizing a normalized value changes nothing, and a request whose
\* new_state is empty or whitespace only is rejected and inserts no record.
C24_NewStateNormalized ==
    /\ \A raw \in RawStates :
          strip(raw) # "" =>
              validate_new_state(validate_new_state(raw)) = validate_new_state(raw)
    /\ [][ApiTransitionCalled =>
              /\ records' = records \cup last'.new
              /\ \A r \in last'.new :
                    \E raw \in last'.request : r.state = upper(strip(raw))
              /\ (last'.request # {} /\ Blank(last'.request))
                    => /\ last'.status # 200
                       /\ records' = records]_vars

\* a request whose new_state was stored in another form than it was sent
C24_Witness ==
    /\ last.op = "api_transition_state"
    /\ last.status = 200
    /\ \E r \in last.new : r \in records /\ {r.state} # last.request

\* a step that is a call of warm_cache
WarmCalled == last'.op = "warm_cache" /\ clock' = clock

\* C25: after warm_cache(entities) the cache entry of each listed entity that
\* has a record is the state of its record with the largest id, a listed
\* entity without a current state has no cache entry created, and no record
\* is inserted.
C25_WarmCacheReadsThrough ==
    [][WarmCalled =>
          /\ records' = records
          /\ \A e \in last'.warmed :
                IF EntityRecords(records, e) # {}
                THEN cache'[get_cache_key(e)] = CurrentState(records, e)
                ELSE cache'[get_cache_key(e)] = cache[get_cache_key(e)]]_vars

\* a state C25 speaks about: warm_cache was called on an entity with records
\* and on one without
C25_Witness ==
    /\ last.op = "warm_cache"
    /\ \E e \in last.warmed : EntityRecords(records, e) # {}
    /\ \E e \in last.warmed : EntityRecords(records, e) = {}

\* the state model accepts the insert of a record of this entity: every
\* column declared without null=True gets a value
Insertable(e) ==
    RequiredFields(e) \subseteq (IF HasDenormalizer(e) THEN DenormalizedFields(e) ELSE {})

\* the fault the environment injects strikes this entity's atomic block:
\* get_denormalized_fields can raise only where the state model defines it
FaultApplies(e, fault) ==
    \/ fault \in {"insert", "cache_set"}
    \/ fault = "denormalize" /\ HasDenormalizer(e)

BuilderExecuteCalled == last'.op = "builder_execute" /\ clock' = clock

\* the positions of the calls of a method in the list of calls of a builder
CallsOf(calls, method) == {i \in DOMAIN calls : calls[i].method = method}

\* the largest number of a non-empty set of numbers
Latest(is) == CHOOSE i \in is : \A j \in is : j <= i

\* the argument of the latest call of the method, None when there is none
LatestArgument(calls, method) ==
    IF CallsOf(calls, method) = {} THEN None
    ELSE calls[Latest(CallsOf(calls, method))].arg

\* the keyword arguments of all calls of the method: each key with the value of
\* the latest call that gives it
Accumulated(calls, method) ==
    LET is == CallsOf(calls, method)
        keys == UNION {DOMAIN calls[i].arg : i \in is}
    IN  [k \in keys |-> calls[Latest({i \in is : k \in DOMAIN calls[i].arg})].arg[k]]

\* the arguments the chain of calls made on a builder stands for
ChainArguments(calls) ==
    [transition_name |-> LatestArgument(calls, "transition"),
     transition_data |-> Accumulated(calls, "with_data"),
     user |-> LatestArgument(calls, "by_user"),
     context |-> Accumulated(calls, "with_context")]

\* C27: execute() of a builder has the effect and the result of
\* execute_transition on the builder's entity with the transition name and
\* user of the latest transition and by_user calls and the data and context
\* accumulated over all with_data and with_context calls, later keys
\* overriding earlier ones; without a transition name it raises ValueError and
\* changes neither the state records nor the cache.
C27_BuilderIsSugar ==
    [][BuilderExecuteCalled =>
          LET args == ChainArguments(builder.calls) IN
          IF Truthy(args.transition_name)
          THEN /\ last'.request = {args}
               /\ \E tail \in 0 .. (NumTails - 1) :
                     LET r == utils_execute_transition(transition_registry, cache, records,
                                  clock, builder.entity, args, last'.fault, tail)
                     IN  /\ FreshTail(tail)
                         /\ records' = r.records
                         /\ cache' = r.cache
                         /\ last'.outcome = r.outcome
                         /\ last'.exc = r.exc
                         /\ last'.new = r.new
                         /\ last'.trace = r.trace
          ELSE /\ last'.request = {}
               /\ last'.outcome = "raise"
               /\ last'.exc = "ValueError"
               /\ records' = records
               /\ cache' = cache]_vars

\* a state C27 speaks about: execute() of a builder wrote a record although an
\* earlier with_data call gave a value that violates the field constraint,
\* because a later call overrode it
C27_Witness ==
    /\ last.op = "builder_execute"
    /\ last.outcome = "return"
    /\ last.new # {}
    /\ \E i \in DOMAIN builder.calls :
          /\ builder.calls[i].method = "with_data"
          /\ AsTransitionData(builder.calls[i].arg) = "malformed"

\* both handlers have returned true from a transition_state call on the entity
BothReturned(e) ==
    \A w \in Writers :
        /\ writers[w].pc = "done"
        /\ writers[w].entity = e
        /\ writers[w].outcome = "return_true"

\* C28: once two transition_state calls on one entity, interleaved in any way,
\* have both returned, the records of the entity have distinct ids and
\* get_current_state returns the state of the record with the largest id.
C28_LaterIdWins ==
    \A e \in ConcurrentEntities :
        BothReturned(e) =>
            /\ \A r, q \in EntityRecords(records, e) : r # q => r.id # q.id
            /\ get_current_state(cache, records, e, TRUE).ret = CurrentState(records, e)

\* a state C28 speaks about: both calls have returned and each has left a record
C28_Witness ==
    \E e \in ConcurrentEntities :
        /\ BothReturned(e)
        /\ Cardinality(EntityRecords(records, e)) >= 2
        /\ last.op = "writer_return"

\* a step in which a handler leaves the atomic block of transition_state
WriterReturned == last'.op = "writer_return" /\ clock' = clock

\* C29: transition_state takes no lock on the entity and does not compare the
\* state it read with the state at the time of its write: a call that reaches
\* the end of its atomic block returns true and persists its record with the
\* state it read as previous_state, whatever was written to the entity since
\* the read.  So two calls can read the same current state and both persist a
\* record with that previous_state (the witness).
C29_NoExpectedPreviousCheck ==
    [][WriterReturned =>
          /\ last'.outcome = "return_true"
          /\ \E r \in last'.new :
                /\ records' = records \cup {r}
                /\ r \notin records
                /\ r.previous_state = last'.ret]_vars

\* a state C29 speaks about: both calls read the same current state and
\* returned true, both records carry it as previous_state, and it is not the
\* state of the record that precedes the later one
C29_Witness ==
    \E e \in ConcurrentEntities :
        /\ BothReturned(e)
        /\ writers["w1"].current_state = writers["w2"].current_state
        /\ \E r, q \in EntityRecords(records, e) :
              /\ r.id < q.id
              /\ r.previous_state = q.previous_state
              /\ q.previous_state = writers["w1"].current_state
              /\ \A o \in EntityRecords(records, e) : o.id <= r.id \/ o.id >= q.id
              /\ q.previous_state # r.state

\* a step in which a handler is interrupted between its insert and the cache
\* update
InterruptCalled == last'.op = "interrupt" /\ clock' = clock

\* a get_current_state call on the entity of an interrupted call, and no
\* other call between the two
ReadAfterInterrupt ==
    /\ last.op = "interrupt"
    /\ last'.op = "get_current_state"
    /\ last'.entity = last.entity

Touched(call) == IF call.op = "warm_cache" THEN call.warmed ELSE {call.entity}

\* C31: operations on different entities do not interfere: every step of a
\* transition_state call and every get_current_state, invalidate_cache and
\* warm_cache call leaves the records and the cache entry of every entity it
\* is not applied to as they were, under any interleaving of the steps, and
\* two distinct entities never share a cache key.
C31_OtherEntitiesUntouched ==
    /\ \A e1, e2 \in Entities : e1 # e2 => get_cache_key(e1) # get_cache_key(e2)
    /\ [][clock' = clock =>
             \A e2 \in Entities \ Touched(last') :
                 /\ EntityRecords(records', e2) = EntityRecords(records, e2)
                 /\ cache'[get_cache_key(e2)] = cache[get_cache_key(e2)]]_vars

\* a state C31 speaks about: a transition_state call on one entity returned
\* while a call on another entity, which has a record and a cache entry, is
\* past its read
C31_Witness ==
    /\ last.op = "writer_return"
    /\ \E w \in Writers :
          /\ writers[w].pc = "read"
          /\ writers[w].entity # last.entity
          /\ EntityRecords(records, writers[w].entity) # {}
          /\ cache[get_cache_key(writers[w].entity)] # None

\* a step in which execute gets its state record and returns it
ExecuteReturned == last'.op = "execute_return" /\ clock' = clock

\* C32: the record that execute hands to post_hook and returns is the record
\* that the same execute call inserted, with the transition's target state,
\* under any interleaving with other transitions on the entity.
C32_ExecuteReturnsOwnRecord ==
    [][ExecuteReturned =>
          /\ last'.fetched = last'.new
          /\ \A r \in last'.fetched : r.state = last'.ret]_vars

\* a state C32 speaks about: execute returned while another execute call on
\* the entity had written its record and not yet fetched it
C32_Witness ==
    /\ last.op = "execute_return"
    /\ last.new # {}
    /\ \E w \in Writers : writers[w].pc = "written" /\ writers[w].entity = last.entity

\* C33: for a declarative transition, the previous_state stored on the
\* written record equals the current_state of the TransitionContext the
\* transition was validated against, after any sequence of transitions, cache
\* invalidations and failed writes.
C33_PreviousStateIsValidatedState ==
    [][ExecuteCalled =>
          \A r \in last'.new : r.previous_state = last'.ret]_vars

\* a state C33 speaks about: a declarative transition wrote a record for an
\* entity that had a current state, after a failed write on that entity
C33_Witness ==
    /\ last.op = "execute"
    /\ last.ret # None
    /\ \E r \in last.new : r \in records /\ r.previous_state # None

\* a step that is a get_current_state call
ReadCalled == last'.op = "get_current_state" /\ clock' = clock

\* C34: get_current_state returns None or the state of a committed record of
\* the entity: a reader never sees, through the cache, the new state of a
\* transition_state call that has not committed.
C34_ReadsOnlyCommittedStates ==
    [][ReadCalled =>
          \/ last'.ret = None
          \/ \E r \in EntityRecords(records, last'.entity) : r.state = last'.ret]_vars

\* a state C34 speaks about: get_current_state was called while a
\* transition_state call on the entity had set the cache and not yet committed
C34_Witness ==
    /\ last.op = "get_current_state"
    /\ \E w \in Writers :
          /\ writers[w].pc = "cached"
          /\ writers[w].entity = last.entity
          /\ writers[w].pending # {}

\* C35: after StateModelRegistry.register_model(name, M) in fsm.registry, the
\* lookup that StateManager uses returns M for entities of that name.
C35_ManagerSeesRegistry ==
    (last.op = "register_state_model" /\ last.module = "fsm.registry") =>
        {manager_get_state_model(state_models, last.name)} = last.result

\* a state C35 speaks about: a state model was registered in fsm.registry
\* under a name that fsm.models does not know
C35_Witness ==
    /\ last.op = "register_state_model"
    /\ last.module = "fsm.registry"
    /\ {get_model(state_models["fsm.registry"], last.name)} = last.result
    /\ manager_get_state_model(state_models, last.name) = None

\* C36: every state write and current-state read goes through the state
\* manager class that FSM_STATE_MANAGER_CLASS configures, the writes of
\* declarative transitions and the reads of get_valid included.
C36_ConfiguredManagerUsed ==
    last.manager # None => last.manager = get_state_manager(settings)

\* a state C36 speaks about: an alternate class is configured and a
\* declarative transition has written a record
C36_Witness ==
    /\ settings = {"EnterpriseStateManager"}
    /\ last.op = "execute"
    /\ last.new # {}
    /\ last.new \subseteq records

\* a get_current_state call that queried the store of an entity that has
\* records and returned None: the query raised
ReadFailed ==
    /\ last'.op = "get_current_state"
    /\ last'.dbq = 1
    /\ last'.ret = None
    /\ EntityRecords(records, last'.entity) # {}

\* a transition_state call whose read of the current state missed the cache
\* and whose query of the store raised
WriteAfterFailedRead ==
    /\ last'.op = "transition_state"
    /\ last'.fault = "read"
    /\ cache[get_cache_key(last'.entity)] = None

\* C37: a get_current_state whose read of the store fails returns None
\* without raising and without writing the cache, as for an entity that never
\* transitioned; a transition_state whose read failed that way commits a
\* record with previous_state None, whatever records the entity has.
C37_FailedReadLooksLikeNoState ==
    /\ [][ReadFailed =>
            LET never == get_current_state(cache, {}, last'.entity, TRUE) IN
            /\ last'.outcome = "return"
            /\ last'.ret = never.ret
            /\ last'.dbq = never.dbq
            /\ cache' = never.cache
            /\ cache' = cache
            /\ records' = records]_vars
    /\ [][last'.op = "get_current_state" => last'.outcome = "return"]_vars
    /\ [][WriteAfterFailedRead =>
            /\ last'.outcome = "return_true"
            /\ last'.new # {}
            /\ last'.new \subseteq records'
            /\ \A r \in last'.new : r.previous_state = None]_vars

\* a state C37 speaks about: a transition_state whose read failed has written
\* a record with previous_state None for an entity that has an earlier record
C37_Witness ==
    /\ last.op = "transition_state"
    /\ last.fault = "read"
    /\ \E r \in last.new :
          /\ r \in records
          /\ r.previous_state = None
          /\ \E earlier \in EntityRecords(records, r.entity) : earlier.id < r.id

\* the denormalizer of the most recent registration of a sequence whose
\* entity name equals the name ignoring case, None when there is none
MostRecentDenormalizer(regs, entity_name) ==
    LET matching == {i \in DOMAIN regs : EqualIgnoringCase(regs[i][1], entity_name)}
    IN  IF matching = {} THEN None
        ELSE regs[CHOOSE i \in matching : \A j \in matching : j <= i][3]

\* C38: after any sequence of register_model calls, the denormalizer of an
\* entity name is the one that the most recent registration of that name
\* supplied, and None when that registration supplied none.
C38_DenormalizerOfLatestRegistration ==
    \A n \in EntityNames :
        get_denormalizer(denormalizers, n) =
            MostRecentDenormalizer(registrations["fsm.registry"], n)

\* a state C38 speaks about: a name registered with a denormalizer was
\* registered again with another state model and without a denormalizer
C38_Witness ==
    /\ last.op = "register_state_model"
    /\ last.module = "fsm.registry"
    /\ LET regs == registrations["fsm.registry"] IN
        /\ Len(regs) = 2
        /\ EqualIgnoringCase(regs[1][1], regs[2][1])
        /\ regs[1][2] # regs[2][2]
        /\ regs[1][3] # None
        /\ regs[2][3] = None
        /\ get_model(state_models["fsm.registry"], regs[2][1]) = regs[2][2]

====
